---------------------------- MODULE Spec2Model ----------------------------
(***************************************************************************)
(* Model of the activity analytics of year-in-code (index.js, config.js).  *)
(*                                                                         *)
(* Conventions                                                             *)
(*  - A JavaScript string is a sequence of UTF-16 code units (integers),   *)
(*    so that formatting, lexical sorting, toLowerCase and includes are    *)
(*    computed and not assumed.                                            *)
(*  - A time value is a number of hours since 1970-01-01T00:00Z; every     *)
(*    instant of the model falls on a whole hour, so the unit stands for   *)
(*    3600000 ms and DayMs (1000*60*60*24 ms) is 24 of these units.        *)
(*  - A Date object is the record of its local calendar fields             *)
(*    [y, m, d, h] (m in 1..12), or InvalidDate.                           *)
(*  - The JavaScript number NaN is the integer NaN below: it is equal to   *)
(*    no number the model computes and it is not greater than any.         *)
(***************************************************************************)
EXTENDS Integers, Sequences, FiniteSets, TLC

VARIABLES
    events,          \* the input array handed to the analyzer
    called,          \* which function was invoked ("none" before the call)
    result,          \* the value the invoked function returned
    server,          \* GitLab's answer to GET /projects/{id}, per project id
    allowedProjects, \* config.gitlab.allowedProjects
    pc,              \* position in getUserActivitySummary's GitLab part
    idx,             \* analyzeEvents: position of the for-of loop in events
    metrics,         \* analyzeEvents: metrics
    projectNamesMap, \* analyzeEvents: projectNamesMap
    projectName,     \* analyzeEvents: projectName of the last iteration
    nameCalls,       \* the calls of getProjectNameById so far, in order
    detailPos,       \* getUserActivitySummary: position in projectIdsFromEvents
    projectDetailsFromEvents,
    env,             \* process.env and the config object built from it
    requests,        \* the HTTP requests issued so far, in order
    files,           \* the files written so far, in order
    frame            \* the local variables of the function that is running

\* the variables of a whole run
runVars == <<env, requests, files, frame>>

summaryVars == <<server, allowedProjects, pc, idx, metrics, projectNamesMap,
                 projectName, nameCalls, detailPos, projectDetailsFromEvents,
                 runVars>>

vars == <<events, called, result, summaryVars>>

-----------------------------------------------------------------------------
(* Bounds of the model *)

MaxStreakEvents == 4

MaxTimeEvents == 3

MaxEvents == 3

MaxGitHubEvents == 3

MaxRankProjects == 6

MaxRankCount == 2

MaxItems == 3

MaxWeekYears == 8

-----------------------------------------------------------------------------
(* JavaScript values *)

NaN == -1000000000

Null == <<-1>>

InvalidDate == [y |-> NaN, m |-> NaN, d |-> NaN, h |-> NaN]

\* event.created_at: an ISO timestamp (given by the local calendar fields
\* it parses to), a string that is no timestamp, or an absent property
Stamp(y, m, d, h) == [kind |-> "iso", y |-> y, m |-> m, d |-> d, h |-> h]

Malformed == [kind |-> "malformed", y |-> 0, m |-> 0, d |-> 0, h |-> 0]

Missing == [kind |-> "missing", y |-> 0, m |-> 0, d |-> 0, h |-> 0]

DayMs == 24

\* the state of the variables of a run while nothing runs
RunIdle ==
    /\ env = <<>>
    /\ requests = <<>>
    /\ files = <<>>
    /\ frame = <<>>

\* the state of the variables of getUserActivitySummary while it is not run
AnalysisIdle ==
    /\ server = <<>>
    /\ allowedProjects = <<>>
    /\ pc = "idle"
    /\ idx = 0
    /\ metrics = <<>>
    /\ projectNamesMap = <<>>
    /\ projectName = Null
    /\ nameCalls = <<>>
    /\ detailPos = 0
    /\ projectDetailsFromEvents = <<>>

SummaryIdle == RunIdle /\ AnalysisIdle

-----------------------------------------------------------------------------
(* Strings *)

Digit(n) == 48 + n

RECURSIVE NumberToString(_)
NumberToString(n) ==
    IF n = NaN THEN <<78, 97, 78>>
    ELSE IF n < 10 THEN <<Digit(n)>>
    ELSE NumberToString(n \div 10) \o <<Digit(n % 10)>>

PadStart2(s) == IF Len(s) >= 2 THEN s ELSE <<48>> \o s

IsDigit(c) == c >= 48 /\ c <= 57

RECURSIVE StrLessFrom(_, _, _)
StrLessFrom(a, b, k) ==
    IF k > Len(a) THEN k <= Len(b)
    ELSE IF k > Len(b) THEN FALSE
    ELSE IF a[k] # b[k] THEN a[k] < b[k]
    ELSE StrLessFrom(a, b, k + 1)

StrLess(a, b) == StrLessFrom(a, b, 1)

RECURSIVE SortStrings(_)
SortStrings(S) ==
    IF S = {} THEN <<>>
    ELSE LET least == CHOOSE x \in S : \A y \in S : x = y \/ StrLess(x, y)
         IN  <<least>> \o SortStrings(S \ {least})

-----------------------------------------------------------------------------
(* Calendar arithmetic of the built-in Date *)

IsLeap(y) == (y % 4 = 0 /\ y % 100 # 0) \/ y % 400 = 0

DaysInMonth(y, m) ==
    IF m = 2 THEN (IF IsLeap(y) THEN 29 ELSE 28)
    ELSE IF m \in {4, 6, 9, 11} THEN 30 ELSE 31

RECURSIVE DaysBeforeMonth(_, _)
DaysBeforeMonth(y, m) ==
    IF m = 1 THEN 0 ELSE DaysBeforeMonth(y, m - 1) + DaysInMonth(y, m - 1)

DaysBeforeYear(y) ==
    LET p == y - 1
    IN  365 * (y - 1970) + (p \div 4 - 1969 \div 4)
          - (p \div 100 - 1969 \div 100) + (p \div 400 - 1969 \div 400)

\* Date.UTC(y, m - 1, d) in days since the epoch
DateUTC(y, m, d) == DaysBeforeYear(y) + DaysBeforeMonth(y, m) + (d - 1)

\* new Date(created_at)
NewDate(created_at) ==
    IF created_at.kind = "iso"
    THEN [y |-> created_at.y, m |-> created_at.m, d |-> created_at.d,
          h |-> created_at.h]
    ELSE InvalidDate

\* new Date("YYYY-MM-DD"): a date-only ISO string is UTC midnight; anything
\* else the model formats is not a date.
DateParse(s) ==
    IF /\ Len(s) = 10
       /\ s[5] = 45 /\ s[8] = 45
       /\ \A k \in {1, 2, 3, 4, 6, 7, 9, 10} : IsDigit(s[k])
    THEN LET y == (s[1] - 48) * 1000 + (s[2] - 48) * 100
                    + (s[3] - 48) * 10 + (s[4] - 48)
             m == (s[6] - 48) * 10 + (s[7] - 48)
             d == (s[9] - 48) * 10 + (s[10] - 48)
         IN  IF m \in 1..12 /\ d \in 1..31
             THEN DateUTC(y, m, d) * DayMs
             ELSE NaN
    ELSE NaN

NumSub(a, b) == IF a = NaN \/ b = NaN THEN NaN ELSE a - b

\* Math.floor in the place of Math.ceil
CeilDiv_Floor(x, q) == IF x = NaN THEN NaN ELSE x \div q

\* Math.ceil(x / q) for q > 0
CeilDiv(x, q) == IF x = NaN THEN NaN ELSE -((-x) \div q)

-----------------------------------------------------------------------------
(* analyzeStreaks / analyzeGitHubStreaks *)

\* `${getFullYear()}-${pad(getMonth() + 1)}-${pad(getDate())}`
DateStr(date) ==
    NumberToString(date.y) \o <<45>>
      \o PadStart2(NumberToString(date.m)) \o <<45>>
      \o PadStart2(NumberToString(date.d))

\* the forEach that fills eventsByDate; guarded is the GitHub variant's
\* if (event.created_at)
RECURSIVE GroupByDate(_, _, _)
GroupByDate(evs, guarded, eventsByDate) ==
    IF evs = <<>> THEN eventsByDate
    ELSE LET event == Head(evs)
         IN  IF guarded /\ event.created_at = Missing
             THEN GroupByDate(Tail(evs), guarded, eventsByDate)
             ELSE LET dateStr == DateStr(NewDate(event.created_at))
                      next == IF dateStr \in DOMAIN eventsByDate
                              THEN [eventsByDate EXCEPT
                                      ![dateStr] = Append(@, event)]
                              ELSE eventsByDate @@ (dateStr :> <<event>>)
                  IN  GroupByDate(Tail(evs), guarded, next)

FinalStreakWins(currentStreak, maxStreak) == currentStreak > maxStreak

\* the for loop over activeDates from index i (1-based) in loop state s
RECURSIVE StreakScan(_, _, _)
StreakScan(activeDates, i, s) ==
    IF i > Len(activeDates) THEN s
    ELSE IF i = 1
    THEN StreakScan(activeDates, i + 1,
            [s EXCEPT !.currentStreak = 1,
                      !.currentStreakStart = activeDates[i]])
    ELSE LET prevDate == DateParse(activeDates[i - 1])
             currDate == DateParse(activeDates[i])
             diffTime == NumSub(currDate, prevDate)
             diffDays == CeilDiv(diffTime, DayMs)
         IN  IF diffDays = 1
             THEN StreakScan(activeDates, i + 1,
                     [s EXCEPT !.currentStreak = @ + 1])
             ELSE IF diffDays > 1
             THEN LET closed ==
                        IF s.currentStreak > s.maxStreak
                        THEN [s EXCEPT !.maxStreak = s.currentStreak,
                                       !.maxStreakStart = s.currentStreakStart,
                                       !.maxStreakEnd = activeDates[i - 1]]
                        ELSE s
                  IN  StreakScan(activeDates, i + 1,
                         [closed EXCEPT !.currentStreak = 1,
                                        !.currentStreakStart = activeDates[i]])
             ELSE StreakScan(activeDates, i + 1, s)

StreakOf(evs, guarded) ==
    LET eventsByDate == GroupByDate(evs, guarded, <<>>)
        activeDates == SortStrings(DOMAIN eventsByDate)
        s0 == [currentStreak |-> 0, maxStreak |-> 0,
               currentStreakStart |-> Null,
               maxStreakStart |-> Null, maxStreakEnd |-> Null]
        s == StreakScan(activeDates, 1, s0)
        f == IF FinalStreakWins(s.currentStreak, s.maxStreak)
             THEN [s EXCEPT !.maxStreak = s.currentStreak,
                            !.maxStreakStart = s.currentStreakStart,
                            !.maxStreakEnd = activeDates[Len(activeDates)]]
             ELSE s
    IN  [maxStreak |-> f.maxStreak,
         maxStreakStart |-> f.maxStreakStart,
         maxStreakEnd |-> f.maxStreakEnd,
         totalActiveDays |-> Len(activeDates)]

analyzeStreaks(evs) == StreakOf(evs, FALSE)

analyzeGitHubStreaks(evs) == StreakOf(evs, TRUE)

-----------------------------------------------------------------------------
(* Inputs of the streak analysis *)

\* local calendar dates around a leap day, a month end and a year end
StreakDates ==
    { Stamp(2024, 2, 28, 9),
      Stamp(2024, 2, 29, 9),
      Stamp(2024, 3, 1, 9),
      Stamp(2024, 12, 31, 9),
      Stamp(2025, 1, 1, 9),
      Stamp(2025, 1, 3, 9) }

StreakStamps == StreakDates \cup {Malformed, Missing}

StreakEvents == { [created_at |-> t] : t \in StreakStamps }

SeqsUpTo(S, n) == UNION { [1..k -> S] : k \in 0..n }

NoResult == [maxStreak |-> 0, maxStreakStart |-> Null, maxStreakEnd |-> Null,
             totalActiveDays |-> 0]

InitStreak ==
    /\ events \in SeqsUpTo(StreakEvents, MaxStreakEvents)
    /\ called = "none"
    /\ result = NoResult
    /\ SummaryIdle

CallAnalyzeStreaks ==
    /\ called = "none"
    /\ called' = "analyzeStreaks"
    /\ result' = analyzeStreaks(events)
    /\ UNCHANGED <<events, summaryVars>>

CallAnalyzeGitHubStreaks ==
    /\ called = "none"
    /\ called' = "analyzeGitHubStreaks"
    /\ result' = analyzeGitHubStreaks(events)
    /\ UNCHANGED <<events, summaryVars>>

NextStreak == CallAnalyzeStreaks \/ CallAnalyzeGitHubStreaks

SpecStreak == InitStreak /\ [][NextStreak]_vars

-----------------------------------------------------------------------------
(* What the streak analysis is meant to compute *)

HasTimestamp(event) == event.created_at.kind = "iso"

ParseableEvents(evs) == SelectSeq(evs, HasTimestamp)

\* the calendar day (days since the epoch) of a parseable event
CalendarDay(event) ==
    DateUTC(event.created_at.y, event.created_at.m, event.created_at.d)

ActiveDays(evs) ==
    { CalendarDay(evs[k]) : k \in { j \in 1..Len(evs) : HasTimestamp(evs[j]) } }

ActiveDateStrs(evs) ==
    { DateStr(NewDate(evs[k].created_at)) :
        k \in { j \in 1..Len(evs) : HasTimestamp(evs[j]) } }

IsRun(D, first, n) == \A j \in 0..(n - 1) : first + j \in D

LongestRun(D) ==
    CHOOSE n \in 0..Cardinality(D) :
        /\ n > 0 => \E first \in D : IsRun(D, first, n)
        /\ \A k \in (n + 1)..Cardinality(D) :
              ~ \E first \in D : IsRun(D, first, k)
        /\ (D # {}) => n > 0

Returned == called # "none"

\* C1: maxStreak is the length of the longest run of consecutive calendar
\* days that each contain at least one event, for every input array.
C1_MaxStreakIsLongestRun ==
    Returned => result.maxStreak = LongestRun(ActiveDays(events))

\* C2: totalActiveDays is the number of distinct calendar dates of the
\* input events, and maxStreak <= totalActiveDays.
C2_TotalActiveDays ==
    Returned =>
        /\ result.totalActiveDays = Cardinality(ActiveDays(events))
        /\ result.maxStreak <= result.totalActiveDays

\* C3: when the input has an active date, maxStreakStart and maxStreakEnd
\* are active dates of the input, maxStreakEnd lies maxStreak - 1 days after
\* maxStreakStart, every day between them is active, and with one distinct
\* active date maxStreak = 1 and both are that date.
C3_StreakStartEnd ==
    (Returned /\ ActiveDays(events) # {}) =>
        /\ result.maxStreakStart \in ActiveDateStrs(events)
        /\ result.maxStreakEnd \in ActiveDateStrs(events)
        /\ NumSub(DateParse(result.maxStreakEnd),
                  DateParse(result.maxStreakStart))
             = (result.maxStreak - 1) * DayMs
        /\ IsRun(ActiveDays(events),
                 DateParse(result.maxStreakStart) \div DayMs,
                 result.maxStreak)
        /\ Cardinality(ActiveDays(events)) = 1 =>
              /\ result.maxStreak = 1
              /\ result.maxStreakStart = result.maxStreakEnd

\* C4: events whose timestamp is malformed or missing are skipped: the
\* result is the one the same function gives without them.
C4_BadTimestampsSkipped ==
    /\ called = "analyzeStreaks" =>
          result = analyzeStreaks(ParseableEvents(events))
    /\ called = "analyzeGitHubStreaks" =>
          result = analyzeGitHubStreaks(ParseableEvents(events))

\* the four statements above restricted to inputs whose timestamps all parse
AllParseable == \A k \in 1..Len(events) : HasTimestamp(events[k])

StreakOnParseableInput ==
    AllParseable =>
        /\ C1_MaxStreakIsLongestRun
        /\ C2_TotalActiveDays
        /\ C3_StreakStartEnd

-----------------------------------------------------------------------------
(* analyzeTimePatterns / analyzeGitHubTimePatterns *)

\* obj[key] = (obj[key] || 0) + 1
Increment(obj, key) ==
    IF key \in DOMAIN obj THEN [obj EXCEPT ![key] = @ + 1]
    ELSE obj @@ (key :> 1)

\* date.getHours()
GetHours(date) == date.h

\* getUTCDay() of a time value; 1970-01-01 was a Thursday
GetUTCDay(t) == IF t = NaN THEN NaN ELSE ((t \div DayMs) + 4) % 7

\* date.getDay(), the weekday of the local calendar date
GetDay(date) ==
    IF date = InvalidDate THEN NaN
    ELSE GetUTCDay(DateUTC(date.y, date.m, date.d) * DayMs)

\* getUTCFullYear() of a time value
GetUTCFullYear(t) ==
    CHOOSE y \in 1970..2100 :
        /\ DaysBeforeYear(y) * DayMs <= t
        /\ t < DaysBeforeYear(y + 1) * DayMs

MonthNames ==
    <<"January", "February", "March", "April", "May", "June", "July",
      "August", "September", "October", "November", "December">>

\* an Invalid Date taken for a date of January
MonthLong_InvalidAsJanuary(date) ==
    IF date = InvalidDate THEN MonthNames[1] ELSE MonthNames[date.m]

\* date.toLocaleString('default', { month: 'long' })
MonthLong(date) ==
    IF date = InvalidDate THEN "Invalid Date" ELSE MonthNames[date.m]

getWeekNumber(date) ==
    LET d0 == IF date = InvalidDate THEN NaN
              ELSE DateUTC(date.y, date.m, date.d) * DayMs
        utcDay == GetUTCDay(d0)
        dayNum == IF utcDay = NaN \/ utcDay = 0 THEN 7 ELSE utcDay
        d == IF d0 = NaN THEN NaN ELSE d0 + (4 - dayNum) * DayMs
        yearStart == IF d = NaN THEN NaN
                     ELSE DateUTC(GetUTCFullYear(d), 1, 1) * DayMs
        days == IF d = NaN THEN NaN ELSE NumSub(d, yearStart) \div DayMs
    IN  IF days = NaN THEN NaN ELSE CeilDiv(days + 1, 7)

\* the body of the forEach callback
CountEvent(timeMetrics, event) ==
    LET date == NewDate(event.created_at)
        hour == GetHours(date)
        dayOfWeek == GetDay(date)
        weekNumber == getWeekNumber(date)
        month == MonthLong(date)
    IN  [hourlyActivity |-> Increment(timeMetrics.hourlyActivity, hour),
         dailyActivity |-> Increment(timeMetrics.dailyActivity, dayOfWeek),
         weeklyActivity |-> Increment(timeMetrics.weeklyActivity, weekNumber),
         monthlyActivity |-> Increment(timeMetrics.monthlyActivity, month)]

\* the days of the week seeded with a count of 0
EmptyTimeMetrics_ZeroFilled ==
    [hourlyActivity |-> <<>>, dailyActivity |-> [d \in 0..6 |-> 0],
     weeklyActivity |-> <<>>, monthlyActivity |-> <<>>]

EmptyTimeMetrics ==
    [hourlyActivity |-> <<>>, dailyActivity |-> <<>>,
     weeklyActivity |-> <<>>, monthlyActivity |-> <<>>]

RECURSIVE TimePatternsOf(_, _, _)
TimePatternsOf(evs, guarded, timeMetrics) ==
    IF evs = <<>> THEN timeMetrics
    ELSE IF guarded /\ Head(evs).created_at = Missing
    THEN TimePatternsOf(Tail(evs), guarded, timeMetrics)
    ELSE TimePatternsOf(Tail(evs), guarded,
                        CountEvent(timeMetrics, Head(evs)))

analyzeTimePatterns(evs) == TimePatternsOf(evs, FALSE, EmptyTimeMetrics)

analyzeGitHubTimePatterns(evs) == TimePatternsOf(evs, TRUE, EmptyTimeMetrics)

-----------------------------------------------------------------------------
(* Inputs of the time-pattern analysis *)

\* a Sunday night in ISO week 52, the Monday after it (week 1 of the next
\* year), a leap day, a January date in week 53 of the year before, and a
\* New Year's Day
TimeStamps ==
    { Stamp(2024, 12, 29, 23),
      Stamp(2024, 12, 30, 0),
      Stamp(2024, 2, 29, 23),
      Stamp(2021, 1, 3, 9),
      Stamp(2025, 1, 1, 9),
      Malformed, Missing }

TimeEvents == { [created_at |-> t] : t \in TimeStamps }

InitTime ==
    /\ events \in SeqsUpTo(TimeEvents, MaxTimeEvents)
    /\ called = "none"
    /\ result = EmptyTimeMetrics
    /\ SummaryIdle

CallAnalyzeTimePatterns ==
    /\ called = "none"
    /\ called' = "analyzeTimePatterns"
    /\ result' = analyzeTimePatterns(events)
    /\ UNCHANGED <<events, summaryVars>>

CallAnalyzeGitHubTimePatterns ==
    /\ called = "none"
    /\ called' = "analyzeGitHubTimePatterns"
    /\ result' = analyzeGitHubTimePatterns(events)
    /\ UNCHANGED <<events, summaryVars>>

NextTime == CallAnalyzeTimePatterns \/ CallAnalyzeGitHubTimePatterns

SpecTime == InitTime /\ [][NextTime]_vars

-----------------------------------------------------------------------------
(* What the time-pattern analysis is meant to compute *)

RECURSIVE SumOfCounts(_)
SumOfCounts(obj) ==
    IF DOMAIN obj = {} THEN 0
    ELSE LET key == CHOOSE k \in DOMAIN obj : TRUE
         IN  obj[key] + SumOfCounts([k \in DOMAIN obj \ {key} |-> obj[k]])

MonthNameSet == { MonthNames[m] : m \in 1..12 }

\* C5: each parseable event increments exactly one bucket of each of the
\* four mappings, so the counts of each mapping sum to the number of
\* parseable events.
C5_CountsSumToParseable ==
    Returned =>
        LET n == Len(ParseableEvents(events))
        IN  /\ SumOfCounts(result.hourlyActivity) = n
            /\ SumOfCounts(result.dailyActivity) = n
            /\ SumOfCounts(result.weeklyActivity) = n
            /\ SumOfCounts(result.monthlyActivity) = n

\* C6: an event with an unparseable timestamp adds no key and no count to
\* any of the four mappings: the result is the one the same function gives
\* without such events.
C6_UnparseableSkipped ==
    /\ called = "analyzeTimePatterns" =>
          result = analyzeTimePatterns(ParseableEvents(events))
    /\ called = "analyzeGitHubTimePatterns" =>
          result = analyzeGitHubTimePatterns(ParseableEvents(events))

\* on inputs whose timestamps all parse, every event lands in one bucket of
\* each mapping and the keys are hours, weekdays, ISO weeks and month names
TimeOnParseableInput ==
    (Returned /\ AllParseable) =>
        /\ C5_CountsSumToParseable
        /\ DOMAIN result.hourlyActivity \subseteq 0..23
        /\ DOMAIN result.dailyActivity \subseteq 0..6
        /\ DOMAIN result.weeklyActivity \subseteq 1..53
        /\ DOMAIN result.monthlyActivity \subseteq MonthNameSet

\* the ISO weeks of the dates above, from an ISO calendar
WeekNumberExamples ==
    /\ getWeekNumber(NewDate(Stamp(2024, 12, 29, 23))) = 52
    /\ getWeekNumber(NewDate(Stamp(2024, 12, 30, 0))) = 1
    /\ getWeekNumber(NewDate(Stamp(2024, 2, 29, 23))) = 9
    /\ getWeekNumber(NewDate(Stamp(2021, 1, 3, 9))) = 53
    /\ getWeekNumber(NewDate(Stamp(2025, 1, 1, 9))) = 1
    /\ getWeekNumber(NewDate(Stamp(2025, 1, 7, 9))) = 2
    /\ getWeekNumber(NewDate(Stamp(2025, 12, 31, 9))) = 1
    /\ GetDay(NewDate(Stamp(2024, 12, 29, 23))) = 0
    /\ GetDay(NewDate(Stamp(2025, 1, 1, 9))) = 3

-----------------------------------------------------------------------------
(* Objects with string keys whose insertion order is observed *)
(* (Object.entries): a sequence of [key, value] entries, oldest key first   *)

ObjHas(obj, key) == \E n \in 1..Len(obj) : obj[n].key = key

ObjGet(obj, key) == obj[CHOOSE n \in 1..Len(obj) : obj[n].key = key].value

\* obj[key] || 0
ObjCount(obj, key) == IF ObjHas(obj, key) THEN ObjGet(obj, key) ELSE 0

\* obj[key] = value
ObjSet(obj, key, value) ==
    IF ObjHas(obj, key)
    THEN [n \in 1..Len(obj) |->
            IF obj[n].key = key THEN [key |-> key, value |-> value]
            ELSE obj[n]]
    ELSE Append(obj, [key |-> key, value |-> value])

ObjKeys(obj) == { obj[n].key : n \in 1..Len(obj) }

\* a key that is an array index ("0", "7", "2048"): canonical decimal digits
\* below 2^32 - 1; Object.entries lists such keys first, in numeric order
IsArrayIndex(key) ==
    /\ Len(key) >= 1
    /\ \A n \in 1..Len(key) : IsDigit(key[n])
    /\ Len(key) = 1 \/ key[1] # 48
    /\ \/ Len(key) <= 9
       \/ /\ Len(key) = 10
          /\ ~StrLess(<<52, 50, 57, 52, 57, 54, 55, 50, 57, 52>>, key)

\* numeric order of two array-index keys
IndexLess(a, b) ==
    \/ Len(a) < Len(b)
    \/ Len(a) = Len(b) /\ StrLess(a, b)

\* the place a new key takes in the property order of the object
RECURSIVE OwnKeyPosition(_, _, _)
OwnKeyPosition(obj, key, n) ==
    IF n > Len(obj) THEN n
    ELSE IF IsArrayIndex(key)
            /\ (~IsArrayIndex(obj[n].key) \/ IndexLess(key, obj[n].key))
    THEN n
    ELSE OwnKeyPosition(obj, key, n + 1)

\* obj[key] = value where the key is any string: an existing key keeps its
\* place, a new array-index key goes among the array indices, any other new
\* key goes last
ObjPut(obj, key, value) ==
    IF ObjHas(obj, key) THEN ObjSet(obj, key, value)
    ELSE LET at == OwnKeyPosition(obj, key, 1)
         IN  SubSeq(obj, 1, at - 1)
                \o <<[key |-> key, value |-> value]>>
                \o SubSeq(obj, at, Len(obj))

\* entries.sort(([,a], [,b]) => b - a): stable, larger counts first
RECURSIVE InsertByCount(_, _)
InsertByCount(sorted, entry) ==
    IF sorted = <<>> THEN <<entry>>
    ELSE IF Head(sorted).value >= entry.value
    THEN <<Head(sorted)>> \o InsertByCount(Tail(sorted), entry)
    ELSE <<entry>> \o sorted

RECURSIVE SortByCountDesc(_)
SortByCountDesc(entries) ==
    IF entries = <<>> THEN <<>>
    ELSE InsertByCount(SortByCountDesc(SubSeq(entries, 1, Len(entries) - 1)),
                       entries[Len(entries)])

\* array.slice(0, n)
Slice0(array, n) == SubSeq(array, 1, IF Len(array) < n THEN Len(array) ELSE n)

-----------------------------------------------------------------------------
(* String functions used by analyzeEvents *)

ToLowerCase(str) ==
    [n \in 1..Len(str) |->
        IF str[n] >= 65 /\ str[n] <= 90 THEN str[n] + 32 ELSE str[n]]

\* str.includes(search)
Includes(str, search) ==
    \E n \in 0..(Len(str) - Len(search)) :
        SubSeq(str, n + 1, n + Len(search)) = search

StrUnknownProject ==
    <<85, 110, 107, 110, 111, 119, 110, 32, 80, 114, 111, 106, 101, 99, 116>>

StrProjectDash == <<80, 114, 111, 106, 101, 99, 116, 45>>

StrPush == <<112, 117, 115, 104>>

EmptyStr == <<>>

-----------------------------------------------------------------------------
(* getProjectNameById *)

\* `Project-${projectId}`
FallbackName(projectId) == StrProjectDash \o NumberToString(projectId)

\* getProjectNameById without its fallbacks: the name of the response as is
getProjectNameById_NoFallback(projectId, response) == response.name

\* response: [ok, name, path]; ok = FALSE when the request is rejected, name
\* and path are the empty string when the property is absent or empty
getProjectNameById(projectId, response) ==
    IF response.ok
    THEN IF response.name # EmptyStr THEN response.name
         ELSE IF response.path # EmptyStr THEN response.path
         ELSE FallbackName(projectId)
    ELSE FallbackName(projectId)

-----------------------------------------------------------------------------
(* analyzeEvents *)

\* a cache that is never hit
IsCached_Never(namesMap, projectId) == FALSE

\* projectNamesMap.has(event.project_id)
IsCached(namesMap, projectId) == projectId \in DOMAIN namesMap

\* the match in one direction only: the name contains the entry
IsAllowed_OneWay(allowed, name) ==
    \E n \in 1..Len(allowed) :
        Includes(ToLowerCase(name), ToLowerCase(allowed[n]))

\* config.gitlab.allowedProjects.some(...)
IsAllowed(allowed, name) ==
    \E n \in 1..Len(allowed) :
        \/ Includes(ToLowerCase(name), ToLowerCase(allowed[n]))
        \/ Includes(ToLowerCase(allowed[n]), ToLowerCase(name))

\* if (config.gitlab.allowedProjects && config.gitlab.allowedProjects.length > 0)
FilterConfigured(allowed) == Len(allowed) > 0

InitialMetrics(evs) ==
    [totalEvents |-> Len(evs),
     eventTypeCounts |-> <<>>,
     projectActivity |-> <<>>,
     monthlyActivity |-> <<>>,
     topProjects |-> <<>>,
     mostActiveMonth |-> "",
     projectContributions |-> <<>>]

\* the push test ignoring letter case
IsPushAction_IgnoreCase(eventType) == Includes(ToLowerCase(eventType), StrPush)

\* eventType.includes('push')
IsPushAction(eventType) == Includes(eventType, StrPush)

\* lines 309-331: the tallies of an event that passed the filter
Tally(m, event, name) ==
    LET eventType == event.action_name
        before == IF ObjHas(m.projectContributions, name)
                  THEN ObjGet(m.projectContributions, name)
                  ELSE [total |-> 0, pushEvents |-> 0, otherEvents |-> 0]
        counted == [before EXCEPT !.total = @ + 1]
        after == IF IsPushAction(eventType)
                 THEN [counted EXCEPT !.pushEvents = @ + 1]
                 ELSE [counted EXCEPT !.otherEvents = @ + 1]
        month == MonthLong(NewDate(event.created_at))
    IN  [m EXCEPT
           !.projectActivity =
               ObjPut(@, name, ObjCount(@, name) + 1),
           !.projectContributions = ObjPut(@, name, after),
           !.monthlyActivity =
               ObjSet(@, month, ObjCount(@, month) + 1)]

\* the body with the allow-list test ahead of every count: an event that
\* is dropped leaves the metrics as they were
EventStep_FilterFirst(m, namesMap, event, srv, allowed) ==
    LET eventType == event.action_name
        counted == [m EXCEPT
                      !.eventTypeCounts =
                          ObjPut(@, eventType, ObjCount(@, eventType) + 1)]
        hasProject == event.project_id # 0
        cached == IsCached(namesMap, event.project_id)
        name == IF ~hasProject THEN StrUnknownProject
                ELSE IF cached THEN namesMap[event.project_id]
                ELSE getProjectNameById(event.project_id,
                                        srv[event.project_id])
    IN  [name |-> name,
         lookup |-> hasProject /\ ~cached,
         metrics |-> IF FilterConfigured(allowed) /\ ~IsAllowed(allowed, name)
                     THEN m
                     ELSE Tally(counted, event, name)]

\* the body of for (const event of events), lines 274-332, for one event:
\* the name it resolves, whether it calls getProjectNameById, and the
\* metrics after it
EventStep(m, namesMap, event, srv, allowed) ==
    LET eventType == event.action_name
        counted == [m EXCEPT
                      !.eventTypeCounts =
                          ObjPut(@, eventType, ObjCount(@, eventType) + 1)]
        hasProject == event.project_id # 0
        cached == IsCached(namesMap, event.project_id)
        name == IF ~hasProject THEN StrUnknownProject
                ELSE IF cached THEN namesMap[event.project_id]
                ELSE getProjectNameById(event.project_id,
                                        srv[event.project_id])
    IN  [name |-> name,
         lookup |-> hasProject /\ ~cached,
         metrics |-> IF FilterConfigured(allowed) /\ ~IsAllowed(allowed, name)
                     THEN counted
                     ELSE Tally(counted, event, name)]

\* one iteration of for (const event of events), lines 274-332
AnalyzeEventsStep ==
    /\ pc = "analyzeEvents"
    /\ idx <= Len(events)
    /\ LET event == events[idx]
           step == EventStep(metrics, projectNamesMap, event, server,
                             allowedProjects)
       IN  /\ projectName' = step.name
           /\ IF step.lookup
              THEN /\ projectNamesMap' =
                         projectNamesMap @@ (event.project_id :> step.name)
                   /\ nameCalls' =
                         Append(nameCalls, [projectId |-> event.project_id,
                                            by |-> "analyzeEvents"])
              ELSE UNCHANGED <<projectNamesMap, nameCalls>>
           /\ metrics' = step.metrics
    /\ idx' = idx + 1
    /\ UNCHANGED <<events, called, result, server, allowedProjects, pc,
                   detailPos, projectDetailsFromEvents, runVars>>

\* the rankings without the sorts: the first five and the first month as
\* the loop left them
Rankings_Unsorted(m) ==
    LET top == Slice0(m.projectActivity, 5)
        mostActive == m.monthlyActivity
    IN  [m EXCEPT
           !.topProjects =
               [n \in 1..Len(top) |->
                   [project |-> top[n].key, count |-> top[n].value]],
           !.mostActiveMonth =
               IF mostActive # <<>> THEN mostActive[1].key ELSE ""]

\* lines 334-343: topProjects and mostActiveMonth
Rankings(m) ==
    LET top == Slice0(SortByCountDesc(m.projectActivity), 5)
        mostActive == SortByCountDesc(m.monthlyActivity)
    IN  [m EXCEPT
           !.topProjects =
               [n \in 1..Len(top) |->
                   [project |-> top[n].key, count |-> top[n].value]],
           !.mostActiveMonth =
               IF mostActive # <<>> THEN mostActive[1].key ELSE ""]

\* lines 334-345: the rankings and the return to getUserActivitySummary
AnalyzeEventsReturn ==
    /\ pc = "analyzeEvents"
    /\ idx > Len(events)
    /\ metrics' = Rankings(metrics)
    /\ pc' = "analyzed"
    /\ UNCHANGED <<events, called, result, server, allowedProjects, idx,
                   projectNamesMap, projectName, nameCalls, detailPos,
                   projectDetailsFromEvents, runVars>>

-----------------------------------------------------------------------------
(* getUserActivitySummary, GitLab part after analyzeEvents *)

\* [...new Set(events.map(event => event.project_id).filter(id => id))]
RECURSIVE ProjectIdsFromEvents(_)
ProjectIdsFromEvents(evs) ==
    IF evs = <<>> THEN <<>>
    ELSE LET front == ProjectIdsFromEvents(SubSeq(evs, 1, Len(evs) - 1))
             id == evs[Len(evs)].project_id
         IN  IF id = 0 \/ \E n \in 1..Len(front) : front[n] = id
             THEN front
             ELSE Append(front, id)

\* one iteration of for (const projectId of projectIdsFromEvents)
FetchProjectDetails ==
    /\ pc = "analyzed"
    /\ detailPos <= Len(ProjectIdsFromEvents(events))
    /\ LET projectId == ProjectIdsFromEvents(events)[detailPos]
           project == getProjectNameById(projectId, server[projectId])
       IN  /\ nameCalls' =
                 Append(nameCalls, [projectId |-> projectId,
                                    by |-> "getUserActivitySummary"])
           /\ projectDetailsFromEvents' =
                 IF /\ project # EmptyStr
                    /\ ~ \E n \in 1..Len(projectDetailsFromEvents) :
                            projectDetailsFromEvents[n].id = projectId
                 THEN Append(projectDetailsFromEvents,
                             [id |-> projectId, name |-> project])
                 ELSE projectDetailsFromEvents
    /\ detailPos' = detailPos + 1
    /\ UNCHANGED <<events, called, result, server, allowedProjects, pc, idx,
                   metrics, projectNamesMap, projectName, runVars>>

\* lines 605-641: gitlabData is assembled and the GitLab part is over
BuildGitLabData ==
    /\ pc = "analyzed"
    /\ detailPos > Len(ProjectIdsFromEvents(events))
    /\ pc' = "gitlabDone"
    /\ UNCHANGED <<events, called, result, server, allowedProjects, idx,
                   metrics, projectNamesMap, projectName, nameCalls,
                   detailPos, projectDetailsFromEvents, runVars>>

\* the for-of loop from its state (m, namesMap) over the events left
RECURSIVE AnalyzeEventsLoop(_, _, _, _, _)
AnalyzeEventsLoop(evs, m, namesMap, srv, allowed) ==
    IF evs = <<>> THEN m
    ELSE LET event == Head(evs)
             step == EventStep(m, namesMap, event, srv, allowed)
         IN  AnalyzeEventsLoop(Tail(evs), step.metrics,
                               IF step.lookup
                               THEN namesMap @@ (event.project_id :> step.name)
                               ELSE namesMap,
                               srv, allowed)

\* the value analyzeEvents(events) resolves to when GitLab answers srv and
\* the allow-list is allowed
analyzeEvents(evs, srv, allowed) ==
    Rankings(AnalyzeEventsLoop(evs, InitialMetrics(evs), <<>>, srv, allowed))

-----------------------------------------------------------------------------
(* Inputs of getUserActivitySummary *)

StrPushedTo == <<112, 117, 115, 104, 101, 100, 32, 116, 111>>

StrOpened == <<111, 112, 101, 110, 101, 100>>

StrCapitalPushedTo == <<80, 117, 115, 104, 101, 100, 32, 116, 111>>

StrAlpha == <<65, 108, 112, 104, 97>>

StrGrpAlpha == <<103, 114, 112, 47, 97, 108, 112, 104, 97>>

StrBetaWeb == <<98, 101, 116, 97, 45, 119, 101, 98>>

StrAlp == <<97, 108, 112>>

StrALPHA2 == <<65, 76, 80, 72, 65, 50>>

StrProject == <<112, 114, 111, 106, 101, 99, 116>>

GitLabEvent(action, projectId, stamp) ==
    [action_name |-> action, project_id |-> projectId, created_at |-> stamp]

\* project_id 0 stands for an absent (falsy) project_id
GitLabEvents ==
    { GitLabEvent(StrPushedTo, 1, Stamp(2025, 1, 15, 9)),
      GitLabEvent(StrOpened, 1, Stamp(2025, 2, 1, 9)),
      GitLabEvent(StrPushedTo, 2, Stamp(2025, 2, 2, 9)),
      GitLabEvent(StrOpened, 2, Malformed),
      GitLabEvent(StrOpened, 0, Stamp(2025, 1, 20, 9)),
      GitLabEvent(StrCapitalPushedTo, 0, Stamp(2025, 2, 3, 9)) }

ProjectIds == {1, 2}

Named(name) == [ok |-> TRUE, name |-> name, path |-> EmptyStr]

PathOnly(path) == [ok |-> TRUE, name |-> EmptyStr, path |-> path]

Nameless == [ok |-> TRUE, name |-> EmptyStr, path |-> EmptyStr]

Rejected == [ok |-> FALSE, name |-> EmptyStr, path |-> EmptyStr]

Servers ==
    { (1 :> r1) @@ (2 :> r2) :
        r1 \in {Named(StrAlpha), PathOnly(StrGrpAlpha), Nameless, Rejected},
        r2 \in {Named(StrBetaWeb), Rejected} }

AllowLists == { <<>>, <<StrAlp>>, <<StrALPHA2, StrProject>> }

\* how many events each of up to MaxRankProjects projects has
RankCounts == UNION { [1..n -> 1..MaxRankCount] : n \in 0..MaxRankProjects }

\* counts[k] events of project k, project after project
RECURSIVE GroupedGitLabEvents(_, _)
GroupedGitLabEvents(counts, k) ==
    IF k > Len(counts) THEN <<>>
    ELSE [n \in 1..counts[k] |->
            GitLabEvent(StrPushedTo, k, Stamp(2025, 1, 15, 9))]
           \o GroupedGitLabEvents(counts, k + 1)

\* a project name made of digits
Str2048 == <<50, 48, 52, 56>>

\* "team-1", "team-2", ...
TeamName(k) == <<116, 101, 97, 109, 45>> \o NumberToString(k)

\* every project has a name of its own; project 2 may be the one named 2048
RankServers ==
    { [k \in 1..MaxRankProjects |->
         Named(IF k = 2 /\ digits THEN Str2048 ELSE TeamName(k))] :
      digits \in BOOLEAN }

InitSummary ==
    /\ \/ /\ events \in SeqsUpTo(GitLabEvents, MaxEvents)
          /\ server \in Servers
          /\ allowedProjects \in AllowLists
       \/ /\ \E counts \in RankCounts :
                events = GroupedGitLabEvents(counts, 1)
          /\ server \in RankServers
          /\ allowedProjects = <<>>
    /\ called = "getUserActivitySummary"
    /\ result = <<>>
    /\ pc = "analyzeEvents"
    /\ idx = 1
    /\ metrics = InitialMetrics(events)
    /\ projectNamesMap = <<>>
    /\ projectName = Null
    /\ nameCalls = <<>>
    /\ detailPos = 1
    /\ projectDetailsFromEvents = <<>>
    /\ RunIdle

NextSummary ==
    \/ AnalyzeEventsStep
    \/ AnalyzeEventsReturn
    \/ FetchProjectDetails
    \/ BuildGitLabData

SpecSummary == InitSummary /\ [][NextSummary]_vars

-----------------------------------------------------------------------------
(* Project-name resolution in analyzeEvents and getUserActivitySummary *)

CallsBy(projectId, by) ==
    Cardinality({ n \in 1..Len(nameCalls) :
                    /\ nameCalls[n].projectId = projectId
                    /\ nameCalls[n].by = by })

Calls(projectId) ==
    Cardinality({ n \in 1..Len(nameCalls) :
                    nameCalls[n].projectId = projectId })

\* the events the for-of loop has gone through
Processed == idx - 1

\* C7: within one invocation of analyzeEvents, getProjectNameById is called
\* at most once per distinct project id, whatever the number and order of
\* the events with that id; later events with the id use the cached name.
C7_ResolverOncePerId ==
    /\ \A id \in DOMAIN server : CallsBy(id, "analyzeEvents") <= 1
    /\ \A id \in DOMAIN server :
          (\E k \in 1..Processed : events[k].project_id = id)
             => CallsBy(id, "analyzeEvents") = 1
    /\ (Processed >= 1 /\ events[Processed].project_id # 0)
          => projectName = projectNamesMap[events[Processed].project_id]

\* an id seen, then another id, then the first id again, all processed
C7_Witness ==
    /\ pc = "analyzed"
    /\ Len(events) = 3
    /\ events[1].project_id = 1
    /\ events[2].project_id = 2
    /\ events[3].project_id = 1
    /\ CallsBy(1, "analyzeEvents") = 1
    /\ CallsBy(2, "analyzeEvents") = 1

\* C8: within one call of getUserActivitySummary each distinct project of
\* the events is resolved to a name at most once.
C8_ResolvedOncePerRun == \A id \in DOMAIN server : Calls(id) <= 1

\* the display names stated by the specification
UnknownProjectName ==
    <<85, 110, 107, 110, 111, 119, 110, 32, 80, 114, 111, 106, 101, 99, 116>>

SyntheticName(id) == <<80, 114, 111, 106, 101, 99, 116, 45, 48 + id>>

NoNameResolved(id) ==
    \/ ~server[id].ok
    \/ server[id].name = <<>> /\ server[id].path = <<>>

RECURSIVE SumOfValues(_)
SumOfValues(obj) ==
    IF obj = <<>> THEN 0 ELSE Head(obj).value + SumOfValues(Tail(obj))

Analyzing == pc \in {"analyzeEvents", "analyzed", "gitlabDone"}

\* C9: an event without project id is attributed to "Unknown Project", one
\* whose lookup yields no name or fails to "Project-{id}"; the lookup's
\* failure does not stop the analysis and the event is still tallied.
C9_FallbackNames ==
    (Analyzing /\ Processed >= 1) =>
        LET event == events[Processed]
            id == event.project_id
        IN  /\ id = 0 => projectName = UnknownProjectName
            /\ (id # 0 /\ NoNameResolved(id))
                  => projectName = SyntheticName(id)
            /\ SumOfValues(metrics.eventTypeCounts) = Processed
            /\ ObjCount(metrics.eventTypeCounts, event.action_name) >= 1
            /\ ~FilterConfigured(allowedProjects) =>
                  /\ SumOfValues(metrics.projectActivity) = Processed
                  /\ ObjCount(metrics.projectActivity, projectName) >= 1

\* the lookups of projects 1 and 2 both fail and the analysis has returned
\* with the events counted under the synthetic names
C9_Witness ==
    /\ pc = "analyzed"
    /\ ~server[1].ok
    /\ ~server[2].ok
    /\ allowedProjects = <<>>
    /\ Len(events) = 3
    /\ events[1].project_id = 1
    /\ events[2].project_id = 0
    /\ events[3].project_id = 2
    /\ ObjKeys(metrics.projectActivity)
         = {SyntheticName(1), UnknownProjectName, SyntheticName(2)}

\* the name analyzeEvents resolves an event to
ResolvedName(event) ==
    IF event.project_id = 0 THEN UnknownProjectName
    ELSE getProjectNameById(event.project_id, server[event.project_id])

ContainsIgnoringCase(str, part) ==
    \E from \in 1..(Len(str) - Len(part) + 1) :
        ToLowerCase(SubSeq(str, from, from + Len(part) - 1))
          = ToLowerCase(part)

\* the allow-list rule of the specification
Retained(name) ==
    \/ allowedProjects = <<>>
    \/ \E n \in 1..Len(allowedProjects) :
          \/ ContainsIgnoringCase(name, allowedProjects[n])
          \/ ContainsIgnoringCase(allowedProjects[n], name)

RetainedEvents(name) ==
    { k \in 1..Len(events) :
        ResolvedName(events[k]) = name /\ Retained(name) }

AllRetainedEvents ==
    { k \in 1..Len(events) : Retained(ResolvedName(events[k])) }

\* C10: with a non-empty allow-list an event is kept in the per-project
\* counts, the per-project contributions and the monthly counts iff its
\* resolved name, ignoring case, contains or is contained by an entry; with
\* an empty allow-list every event is kept.
C10_AllowListFilter ==
    pc \in {"analyzed", "gitlabDone"} =>
        /\ \A k \in 1..Len(events) :
              LET name == ResolvedName(events[k])
              IN  /\ ObjCount(metrics.projectActivity, name)
                       = Cardinality(RetainedEvents(name))
                  /\ ObjHas(metrics.projectContributions, name)
                       <=> Retained(name)
                  /\ Retained(name) =>
                        ObjGet(metrics.projectContributions, name).total
                          = Cardinality(RetainedEvents(name))
        /\ SumOfValues(metrics.projectActivity)
             = Cardinality(AllRetainedEvents)
        /\ SumOfValues(metrics.monthlyActivity)
             = Cardinality(AllRetainedEvents)
        /\ allowedProjects = <<>> =>
              SumOfValues(metrics.projectActivity) = Len(events)

\* "Alpha" is kept because the entry "ALPHA2" contains it, "Unknown Project"
\* because it contains the entry "project", and "beta-web" is dropped
C10_Witness ==
    /\ pc = "analyzed"
    /\ allowedProjects = <<StrALPHA2, StrProject>>
    /\ Len(events) = 3
    /\ ResolvedName(events[1]) = StrAlpha
    /\ ResolvedName(events[2]) = StrBetaWeb
    /\ ResolvedName(events[3]) = UnknownProjectName
    /\ ObjKeys(metrics.projectActivity) = {StrAlpha, UnknownProjectName}
    /\ SumOfValues(metrics.monthlyActivity) = 2

-----------------------------------------------------------------------------
(* analyzeGitHubEvents *)

StrPushEvent == <<80, 117, 115, 104, 69, 118, 101, 110, 116>>

StrIssuesEvent == <<73, 115, 115, 117, 101, 115, 69, 118, 101, 110, 116>>

\* eventType === 'PushEvent'
IsPushType(eventType) == eventType = StrPushEvent

\* the metrics object before the forEach
InitialGitHubMetrics(evs, commits) ==
    [totalEvents |-> Len(evs),
     totalCommits |-> Len(commits),
     eventTypeCounts |-> <<>>,
     repoActivity |-> <<>>,
     monthlyActivity |-> <<>>,
     topRepos |-> <<>>,
     mostActiveMonth |-> "",
     contributions |-> <<>>]

\* the callback of events.forEach; event.repo is the empty string when
\* event.repo or event.repo.name is absent
GitHubTally(m, event) ==
    LET eventType == event.type
        counted == [m EXCEPT
                      !.eventTypeCounts =
                          ObjPut(@, eventType, ObjCount(@, eventType) + 1)]
        repoName == event.repo
        before == IF ObjHas(counted.contributions, repoName)
                  THEN ObjGet(counted.contributions, repoName)
                  ELSE [total |-> 0, pushEvents |-> 0, otherEvents |-> 0]
        total == [before EXCEPT !.total = @ + 1]
        after == IF IsPushType(eventType)
                 THEN [total EXCEPT !.pushEvents = @ + 1]
                 ELSE [total EXCEPT !.otherEvents = @ + 1]
        withRepo == IF repoName # EmptyStr
                    THEN [counted EXCEPT
                            !.repoActivity =
                                ObjPut(@, repoName, ObjCount(@, repoName) + 1),
                            !.contributions = ObjPut(@, repoName, after)]
                    ELSE counted
        month == MonthLong(NewDate(event.created_at))
    IN  IF event.created_at # Missing
        THEN [withRepo EXCEPT
                !.monthlyActivity = ObjSet(@, month, ObjCount(@, month) + 1)]
        ELSE withRepo

RECURSIVE GitHubEventsLoop(_, _)
GitHubEventsLoop(evs, m) ==
    IF evs = <<>> THEN m
    ELSE GitHubEventsLoop(Tail(evs), GitHubTally(m, Head(evs)))

analyzeGitHubEvents(evs, commits) ==
    LET m == GitHubEventsLoop(evs, InitialGitHubMetrics(evs, commits))
        top == Slice0(SortByCountDesc(m.repoActivity), 5)
        mostActive == SortByCountDesc(m.monthlyActivity)
    IN  [m EXCEPT
           !.topRepos =
               [n \in 1..Len(top) |->
                   [repo |-> top[n].key, count |-> top[n].value]],
           !.mostActiveMonth =
               IF mostActive # <<>> THEN mostActive[1].key ELSE ""]

-----------------------------------------------------------------------------
(* Inputs of analyzeGitHubEvents *)

StrRepoA == <<111, 47, 97>>

StrRepoB == <<111, 47, 98>>

\* "o/r1", "o/r2", ...
RepoName(k) == <<111, 47, 114>> \o NumberToString(k)

GitHubEvent(type, repo, stamp) ==
    [type |-> type, repo |-> repo, created_at |-> stamp]

GitHubEvents ==
    { GitHubEvent(StrPushEvent, StrRepoA, Stamp(2025, 1, 15, 9)),
      GitHubEvent(StrIssuesEvent, StrRepoA, Stamp(2025, 2, 1, 9)),
      GitHubEvent(StrPushEvent, StrRepoB, Stamp(2025, 2, 2, 9)),
      GitHubEvent(StrIssuesEvent, StrRepoB, Malformed),
      GitHubEvent(StrPushEvent, EmptyStr, Stamp(2025, 1, 20, 9)),
      GitHubEvent(StrIssuesEvent, StrRepoA, Missing) }

\* counts[k] events of the k-th repository, repository after repository
RECURSIVE GroupedGitHubEvents(_, _)
GroupedGitHubEvents(counts, k) ==
    IF k > Len(counts) THEN <<>>
    ELSE [n \in 1..counts[k] |->
            GitHubEvent(StrPushEvent, RepoName(k), Stamp(2025, 1, 15, 9))]
           \o GroupedGitHubEvents(counts, k + 1)

Commits == [sha |-> 1]

InitGitHubEvents ==
    /\ \/ events \in SeqsUpTo(GitHubEvents, MaxGitHubEvents)
       \/ \E counts \in RankCounts : events = GroupedGitHubEvents(counts, 1)
    /\ called = "none"
    /\ result = <<>>
    /\ SummaryIdle

CallAnalyzeGitHubEvents ==
    /\ called = "none"
    /\ \E commits \in SeqsUpTo({Commits}, 1) :
          result' = analyzeGitHubEvents(events, commits)
    /\ called' = "analyzeGitHubEvents"
    /\ UNCHANGED <<events, summaryVars>>

NextGitHubEvents == CallAnalyzeGitHubEvents

-----------------------------------------------------------------------------
(* Both event analyses: getUserActivitySummary's GitLab part, and *)
(* analyzeGitHubEvents                                                      *)

InitEvents == InitSummary \/ InitGitHubEvents

NextEvents ==
    \/ AnalyzeEventsStep
    \/ AnalyzeEventsReturn
    \/ FetchProjectDetails
    \/ BuildGitLabData
    \/ CallAnalyzeGitHubEvents

SpecEvents == InitEvents /\ [][NextEvents]_vars

-----------------------------------------------------------------------------
(* Per-project contributions *)

\* the label contains the lower-case letters p, u, s, h in a row
ContainsPush(label) ==
    \E n \in 1..(Len(label) - 3) :
        /\ label[n] = 112
        /\ label[n + 1] = 117
        /\ label[n + 2] = 115
        /\ label[n + 3] = 104

GitLabPushes(name) ==
    { k \in RetainedEvents(name) : ContainsPush(events[k].action_name) }

PushEventType == <<80, 117, 115, 104, 69, 118, 101, 110, 116>>

RepoEvents(repo) == { k \in 1..Len(events) : events[k].repo = repo }

GitHubPushes(repo) == { k \in RepoEvents(repo) : events[k].type = PushEventType }

\* the split of one contributions mapping against its activity mapping
ContributionsSplit(contributions, activity, Of(_), Pushes(_)) ==
    /\ ObjKeys(contributions) = ObjKeys(activity)
    /\ \A n \in 1..Len(contributions) :
          LET p == contributions[n].key
              c == contributions[n].value
          IN  /\ c.total = c.pushEvents + c.otherEvents
              /\ c.total = ObjCount(activity, p)
              /\ c.pushEvents = Cardinality(Pushes(p))
              /\ c.otherEvents = Cardinality(Of(p) \ Pushes(p))

\* C11: after analyzeEvents, for every project name of the output,
\* projectContributions[p].total = pushEvents + otherEvents = projectActivity[p]
\* and an event counts as a push exactly when its action label contains
\* "push" in this letter case; the same holds of analyzeGitHubEvents for
\* contributions and repoActivity, a push being an event of type 'PushEvent'.
C11_ContributionsSplit ==
    /\ pc \in {"analyzed", "gitlabDone"} =>
          ContributionsSplit(metrics.projectContributions,
                             metrics.projectActivity,
                             RetainedEvents, GitLabPushes)
    /\ called = "analyzeGitHubEvents" =>
          ContributionsSplit(result.contributions, result.repoActivity,
                             RepoEvents, GitHubPushes)

\* "pushed to" and "opened" for project Alpha and a "Pushed to", which is no
\* push, without project: Alpha has one push of two, Unknown Project none
C11_Witness ==
    /\ pc = "analyzed"
    /\ Len(events) = 3
    /\ events[1].action_name = StrPushedTo
    /\ events[2].action_name = StrCapitalPushedTo
    /\ events[3].action_name = StrOpened
    /\ ObjHas(metrics.projectContributions, StrAlpha)
    /\ ObjGet(metrics.projectContributions, StrAlpha)
         = [total |-> 2, pushEvents |-> 1, otherEvents |-> 1]
    /\ ObjHas(metrics.projectContributions, UnknownProjectName)
    /\ ObjGet(metrics.projectContributions, UnknownProjectName)
         = [total |-> 1, pushEvents |-> 0, otherEvents |-> 1]

-----------------------------------------------------------------------------
(* Rankings *)

\* the position in the input of the first event of a name
FirstSeen(Of(_), name) == CHOOSE k \in Of(name) : \A j \in Of(name) : k <= j

AtMostFive(n) == IF n < 5 THEN n ELSE 5

Listed(top) == { top[n].name : n \in 1..Len(top) }

\* top lists the names of highest count, highest first
IsTopFive(top, names, Of(_)) ==
    /\ Len(top) = AtMostFive(Cardinality(names))
    /\ \A n \in 1..Len(top) :
          /\ top[n].name \in names
          /\ top[n].count = Cardinality(Of(top[n].name))
    /\ \A i, j \in 1..Len(top) :
          i < j => /\ top[i].name # top[j].name
                   /\ top[i].count >= top[j].count
    /\ \A p \in names \ Listed(top) :
          \A n \in 1..Len(top) : Cardinality(Of(p)) <= top[n].count

\* among names of equal count the one first seen earlier comes first, in the
\* list and at its cut
TiesByFirstSeen(top, names, Of(_)) ==
    /\ \A i, j \in 1..Len(top) :
          (i < j /\ top[i].count = top[j].count)
             => FirstSeen(Of, top[i].name) < FirstSeen(Of, top[j].name)
    /\ \A p \in names \ Listed(top) :
          \A n \in 1..Len(top) :
             Cardinality(Of(p)) = top[n].count
                => FirstSeen(Of, top[n].name) < FirstSeen(Of, p)

GitLabTop ==
    [n \in 1..Len(metrics.topProjects) |->
        [name |-> metrics.topProjects[n].project,
         count |-> metrics.topProjects[n].count]]

GitLabNames == { ResolvedName(events[k]) : k \in AllRetainedEvents }

GitHubTop ==
    [n \in 1..Len(result.topRepos) |->
        [name |-> result.topRepos[n].repo, count |-> result.topRepos[n].count]]

GitHubNames == { events[k].repo : k \in 1..Len(events) } \ {<<>>}

\* C12: topProjects (topRepos) has min(5, number of distinct names) entries,
\* sorted by count from the highest, holds the names of highest count, and
\* lists names of equal count in the order in which the input first shows
\* them.
C12_TopFive ==
    /\ pc \in {"analyzed", "gitlabDone"} =>
          /\ IsTopFive(GitLabTop, GitLabNames, RetainedEvents)
          /\ TiesByFirstSeen(GitLabTop, GitLabNames, RetainedEvents)
    /\ called = "analyzeGitHubEvents" =>
          /\ IsTopFive(GitHubTop, GitHubNames, RepoEvents)
          /\ TiesByFirstSeen(GitHubTop, GitHubNames, RepoEvents)

\* the ranking but for the order of ties
C12_TopFiveCounts ==
    /\ pc \in {"analyzed", "gitlabDone"} =>
          IsTopFive(GitLabTop, GitLabNames, RetainedEvents)
    /\ called = "analyzeGitHubEvents" =>
          IsTopFive(GitHubTop, GitHubNames, RepoEvents)

\* the order of ties of the names that are no array index
C12_TiesOfOrdinaryNames ==
    /\ (pc \in {"analyzed", "gitlabDone"}
           /\ \A p \in GitLabNames : ~IsArrayIndex(p))
          => TiesByFirstSeen(GitLabTop, GitLabNames, RetainedEvents)
    /\ called = "analyzeGitHubEvents" =>
          TiesByFirstSeen(GitHubTop, GitHubNames, RepoEvents)

-----------------------------------------------------------------------------
(* The most active month *)

\* the retained events of a month
RetainedInMonth(month) ==
    { k \in AllRetainedEvents :
        /\ events[k].created_at.kind = "iso"
        /\ MonthNames[events[k].created_at.m] = month }

\* C13: mostActiveMonth of analyzeEvents is a month name whose count is
\* the highest among the events kept by the allow-list filter, and the
\* empty string when no event is kept.
C13_MostActiveMonth ==
    pc \in {"analyzed", "gitlabDone"} =>
        IF AllRetainedEvents = {}
        THEN metrics.mostActiveMonth = ""
        ELSE /\ metrics.mostActiveMonth \in MonthNameSet
             /\ \A month \in MonthNameSet :
                   Cardinality(RetainedInMonth(month))
                     <= Cardinality(RetainedInMonth(metrics.mostActiveMonth))

\* the same when every kept event has a parseable timestamp
C13_OnParseableInput ==
    (\A k \in AllRetainedEvents : events[k].created_at.kind = "iso")
        => C13_MostActiveMonth

-----------------------------------------------------------------------------
(* Order of the input *)

\* an object as the set of its entries
AsMapping(obj) == { obj[n] : n \in 1..Len(obj) }

Swapped(evs, k) ==
    [n \in 1..Len(evs) |->
        IF n = k THEN evs[k + 1] ELSE IF n = k + 1 THEN evs[k] ELSE evs[n]]

Reversed(evs) == [n \in 1..Len(evs) |-> evs[Len(evs) + 1 - n]]

\* the input with two unlike neighbours exchanged, and the input back to
\* front; exchanges of neighbours make up every permutation
Rearrangements(evs) ==
    { Swapped(evs, k) : k \in { n \in 1..(Len(evs) - 1) : evs[n] # evs[n + 1] } }
        \cup { Reversed(evs) }

Counts(top) == [n \in 1..Len(top) |-> top[n].count]

\* the same entries, possibly with entries of equal count in another order
SameButTieOrder(top, other) ==
    /\ AsMapping(top) = AsMapping(other)
    /\ Counts(top) = Counts(other)

\* the same counts, and the same entries but for those whose count equals
\* that of some entry of the other list
SameButTies(top, other) ==
    /\ Counts(top) = Counts(other)
    /\ \A entry \in AsMapping(top) \ AsMapping(other) :
          \E n \in 1..Len(other) : other[n].count = entry.count
    /\ \A entry \in AsMapping(other) \ AsMapping(top) :
          \E n \in 1..Len(top) : top[n].count = entry.count

SameTallies(m, other) ==
    /\ AsMapping(other.eventTypeCounts) = AsMapping(m.eventTypeCounts)
    /\ AsMapping(other.projectActivity) = AsMapping(m.projectActivity)

AgreeButTieOrder(m, other) ==
    /\ SameTallies(m, other)
    /\ SameButTieOrder(m.topProjects, other.topProjects)

AgreeButTies(m, other) ==
    /\ SameTallies(m, other)
    /\ SameButTies(m.topProjects, other.topProjects)

\* analyzeEvents has just returned its metrics
JustAnalyzed == pc = "analyzed" /\ detailPos = 1

\* C14 as stated: analyzeEvents on the events in another order, with the
\* same resolver answers and allow-list, yields the same eventTypeCounts and
\* projectActivity mappings, and a topProjects that differs at most in the
\* relative order of projects of equal count.
C14_OrderIndependent ==
    JustAnalyzed =>
        \A other \in Rearrangements(events) :
            AgreeButTieOrder(metrics,
                             analyzeEvents(other, server, allowedProjects))

\* C14 amended: the two mappings are the same, and topProjects has the same
\* counts and differs at most in entries of equal count: in their relative
\* order and, at the cut after five, in which of them are listed.
C14_OrderIndependentButTies ==
    JustAnalyzed =>
        \A other \in Rearrangements(events) :
            AgreeButTies(metrics,
                         analyzeEvents(other, server, allowedProjects))

\* the loop of the model, step by step, computes analyzeEvents
AnalyzeEventsStepwise ==
    JustAnalyzed => metrics = analyzeEvents(events, server, allowedProjects)

\* more than five projects, the fifth and the sixth with equal counts: the
\* input back to front lists a project that the input does not
C14_Witness ==
    /\ pc = "analyzed"
    /\ Len(metrics.projectActivity) > 5
    /\ metrics.projectActivity[1].value > metrics.projectActivity[2].value
    /\ LET m == analyzeEvents(Reversed(events), server, allowedProjects)
       IN  /\ AsMapping(m.topProjects) # AsMapping(metrics.topProjects)
           /\ m.topProjects[1] = metrics.topProjects[1]

-----------------------------------------------------------------------------
(* analyzeMergeRequests / analyzeIssues *)
(* item.state is compared for equality only and is a string of the model;  *)
(* a quotient of two numbers is the fraction [num, den] in lowest terms    *)

RECURSIVE GCD(_, _)
GCD(a, b) == IF b = 0 THEN a ELSE GCD(b, a % b)

\* a / b for a >= 0 or NaN, and b > 0
Divide(a, b) ==
    IF a = NaN THEN [num |-> NaN, den |-> 1]
    ELSE LET g == GCD(a, b) IN [num |-> a \div g, den |-> b \div g]

\* the number 0 of the initial averageTimeToMerge
Zero == [num |-> 0, den |-> 1]

\* date.getTime() in the time unit of the model
GetTime(date) ==
    IF date = InvalidDate THEN NaN
    ELSE DateUTC(date.y, date.m, date.d) * DayMs + date.h

\* a + b
NumAdd(a, b) == IF a = NaN \/ b = NaN THEN NaN ELSE a + b

\* an add that does not look for the value
SetAdd_Always(set, value) == Append(set, value)

\* set.add(value) on a Set kept in insertion order
SetAdd(set, value) ==
    IF \E n \in 1..Len(set) : set[n] = value THEN set ELSE Append(set, value)

\* the test of created_at alone
HasBothTimestamps_CreatedOnly(mr) == mr.created_at # Missing

\* mr.merged_at && mr.created_at
HasBothTimestamps(mr) == mr.merged_at # Missing /\ mr.created_at # Missing

\* a last branch taken by every other state
IsClosedState_Else(state) == TRUE

\* mr.state === 'closed'
IsClosedState(state) == state = "closed"

\* the callback of mrs.forEach, lines 365-382
MergeRequestTally(m, mr) ==
    LET added == [m EXCEPT !.projectsWithMRs = SetAdd(@, mr.project_id)]
    IN  IF mr.state = "merged"
        THEN LET counted == [added EXCEPT !.mergedCount = @ + 1]
             IN  IF HasBothTimestamps(mr)
                 THEN LET created == NewDate(mr.created_at)
                          merged == NewDate(mr.merged_at)
                          timeDiff == NumSub(GetTime(merged), GetTime(created))
                      IN  [counted EXCEPT
                             !.totalTimeToMerge = NumAdd(@, timeDiff)]
                 ELSE counted
        ELSE IF mr.state = "opened"
        THEN [added EXCEPT !.openedCount = @ + 1]
        ELSE IF IsClosedState(mr.state)
        THEN [added EXCEPT !.closedCount = @ + 1]
        ELSE added

RECURSIVE MergeRequestsLoop(_, _)
MergeRequestsLoop(mrs, m) ==
    IF mrs = <<>> THEN m
    ELSE MergeRequestsLoop(Tail(mrs), MergeRequestTally(m, Head(mrs)))

analyzeMergeRequests(mrs) ==
    LET m == MergeRequestsLoop(mrs,
                 [totalCreated |-> Len(mrs),
                  totalAssigned |-> 0,
                  mergedCount |-> 0,
                  openedCount |-> 0,
                  closedCount |-> 0,
                  averageTimeToMerge |-> Zero,
                  totalTimeToMerge |-> 0,
                  projectsWithMRs |-> <<>>])
    IN  IF m.mergedCount > 0
        THEN [m EXCEPT
                !.averageTimeToMerge =
                    Divide(m.totalTimeToMerge, m.mergedCount)]
        ELSE m

\* the callback counting states as analyzeMergeRequests does: 'opened' alone
\* is opened
IssueTally_OpenedOnly(m, issue) ==
    LET added == [m EXCEPT !.projectsWithIssues = SetAdd(@, issue.project_id)]
    IN  IF issue.state = "closed"
        THEN [added EXCEPT !.closedCount = @ + 1]
        ELSE IF issue.state = "opened"
        THEN [added EXCEPT !.openedCount = @ + 1]
        ELSE added

\* the callback of issues.forEach, lines 407-415
IssueTally(m, issue) ==
    LET added == [m EXCEPT !.projectsWithIssues = SetAdd(@, issue.project_id)]
    IN  IF issue.state = "closed"
        THEN [added EXCEPT !.closedCount = @ + 1]
        ELSE [added EXCEPT !.openedCount = @ + 1]

RECURSIVE IssuesLoop(_, _)
IssuesLoop(issues, m) ==
    IF issues = <<>> THEN m
    ELSE IssuesLoop(Tail(issues), IssueTally(m, Head(issues)))

analyzeIssues(issues) ==
    IssuesLoop(issues,
        [totalCreated |-> Len(issues),
         totalAssigned |-> 0,
         closedCount |-> 0,
         openedCount |-> 0,
         projectsWithIssues |-> <<>>])

-----------------------------------------------------------------------------
(* Inputs of analyzeMergeRequests and analyzeIssues *)

\* project_id 0 stands for an absent project_id
WorkItem(state, projectId, createdAt, mergedAt) ==
    [state |-> state, project_id |-> projectId, created_at |-> createdAt,
     merged_at |-> mergedAt]

WorkItems ==
    { WorkItem("merged", 2, Stamp(2025, 1, 1, 9), Stamp(2025, 1, 2, 9)),
      WorkItem("merged", 1, Stamp(2025, 1, 1, 9), Stamp(2025, 1, 1, 12)),
      WorkItem("merged", 1, Stamp(2025, 1, 1, 9), Missing),
      WorkItem("merged", 2, Missing, Stamp(2025, 1, 2, 9)),
      WorkItem("merged", 1, Malformed, Stamp(2025, 1, 2, 9)),
      WorkItem("opened", 2, Stamp(2025, 1, 1, 9), Missing),
      WorkItem("closed", 1, Stamp(2025, 1, 1, 9), Missing),
      WorkItem("locked", 0, Stamp(2025, 1, 1, 9), Missing) }

InitItems ==
    /\ events \in SeqsUpTo(WorkItems, MaxItems)
    /\ called = "none"
    /\ result = <<>>
    /\ SummaryIdle

CallAnalyzeMergeRequests ==
    /\ called = "none"
    /\ called' = "analyzeMergeRequests"
    /\ result' = analyzeMergeRequests(events)
    /\ UNCHANGED <<events, summaryVars>>

CallAnalyzeIssues ==
    /\ called = "none"
    /\ called' = "analyzeIssues"
    /\ result' = analyzeIssues(events)
    /\ UNCHANGED <<events, summaryVars>>

NextItems == CallAnalyzeMergeRequests \/ CallAnalyzeIssues

SpecItems == InitItems /\ [][NextItems]_vars

-----------------------------------------------------------------------------
(* What the merge-request and issue analyses are meant to compute *)

InState(state) == { n \in 1..Len(events) : events[n].state = state }

MergeRequestsReturned == called = "analyzeMergeRequests"

\* C16: analyzeMergeRequests counts an item in exactly one of mergedCount,
\* openedCount, closedCount when its state is 'merged', 'opened', 'closed',
\* and in none of them otherwise; every item is in totalCreated and its
\* project id in projectsWithMRs; the three counts sum to at most
\* totalCreated, and to exactly totalCreated iff no item has another state.
C16_StatePartition ==
    MergeRequestsReturned =>
        /\ result.mergedCount = Cardinality(InState("merged"))
        /\ result.openedCount = Cardinality(InState("opened"))
        /\ result.closedCount = Cardinality(InState("closed"))
        /\ result.totalCreated = Len(events)
        /\ \A n \in 1..Len(events) :
              \E k \in 1..Len(result.projectsWithMRs) :
                 result.projectsWithMRs[k] = events[n].project_id
        /\ result.mergedCount + result.openedCount + result.closedCount
             <= result.totalCreated
        /\ (result.mergedCount + result.openedCount + result.closedCount
              = result.totalCreated)
             <=> (\A n \in 1..Len(events) :
                     events[n].state \in {"merged", "opened", "closed"})

\* a merged, an opened and a 'locked' item: one count each, three created
C16_Witness ==
    /\ MergeRequestsReturned
    /\ Len(events) = 3
    /\ events[1].state = "merged"
    /\ events[2].state = "locked"
    /\ events[3].state = "opened"
    /\ result.mergedCount = 1
    /\ result.openedCount = 1
    /\ result.closedCount = 0
    /\ result.totalCreated = 3

\* the merged items that have both timestamps
Contributing ==
    { n \in 1..Len(events) :
        /\ events[n].state = "merged"
        /\ events[n].created_at.kind # "missing"
        /\ events[n].merged_at.kind # "missing" }

\* the hour of a parseable timestamp, counted from the epoch
HourOf(stamp) == DateUTC(stamp.y, stamp.m, stamp.d) * 24 + stamp.h

Duration(n) == HourOf(events[n].merged_at) - HourOf(events[n].created_at)

RECURSIVE SumOfDurations(_)
SumOfDurations(S) ==
    IF S = {} THEN 0
    ELSE LET n == CHOOSE k \in S : TRUE
         IN  Duration(n) + SumOfDurations(S \ {n})

AllParse(S) ==
    \A n \in S : /\ events[n].created_at.kind = "iso"
                 /\ events[n].merged_at.kind = "iso"

\* C17: averageTimeToMerge is the sum of merged_at - created_at over the
\* merged items that have both timestamps, divided by the number of those
\* items (not by mergedCount when some merged item lacks a timestamp).
C17_AverageOverContributing ==
    (MergeRequestsReturned /\ Contributing # {} /\ AllParse(Contributing)) =>
        result.averageTimeToMerge.num * Cardinality(Contributing)
          = SumOfDurations(Contributing) * result.averageTimeToMerge.den

\* the same when every merged item has both timestamps
C17_WhenEveryMergedItemContributes ==
    Contributing = InState("merged") => C17_AverageOverContributing

\* C18: averageTimeToMerge is 0 whenever no merged item contributes a
\* duration: the input is empty, or has no merged item, or every merged
\* item lacks merged_at or created_at.
C18_ZeroAverage ==
    (MergeRequestsReturned /\ Contributing = {}) =>
        result.averageTimeToMerge = [num |-> 0, den |-> 1]

\* two merged items, one without merged_at and one without created_at
C18_Witness ==
    /\ MergeRequestsReturned
    /\ Len(events) >= 2
    /\ events[1].state = "merged" /\ events[1].merged_at.kind = "missing"
    /\ events[2].state = "merged" /\ events[2].created_at.kind = "missing"
    /\ Contributing = {}
    /\ result.mergedCount >= 2
    /\ result.averageTimeToMerge = [num |-> 0, den |-> 1]

ProjectIdOf(n) == events[n].project_id

FirstWith(id) ==
    CHOOSE n \in 1..Len(events) :
        /\ ProjectIdOf(n) = id
        /\ \A k \in 1..(n - 1) : ProjectIdOf(k) # id

\* list holds each project id of the input once, in order of first occurrence
InFirstOccurrenceOrder(list) ==
    /\ { list[k] : k \in 1..Len(list) }
         = { ProjectIdOf(n) : n \in 1..Len(events) }
    /\ \A i, j \in 1..Len(list) :
          i < j => /\ list[i] # list[j]
                   /\ FirstWith(list[i]) < FirstWith(list[j])

\* C19: projectsWithMRs and projectsWithIssues list each distinct project id
\* exactly once, in the order of its first occurrence in the input.
C19_ProjectsOnceInOrder ==
    /\ MergeRequestsReturned => InFirstOccurrenceOrder(result.projectsWithMRs)
    /\ called = "analyzeIssues" =>
          InFirstOccurrenceOrder(result.projectsWithIssues)

\* project 2, then project 1, then project 2 again
C19_Witness ==
    /\ MergeRequestsReturned
    /\ Len(events) = 3
    /\ ProjectIdOf(1) = 2
    /\ ProjectIdOf(2) = 1
    /\ ProjectIdOf(3) = 2
    /\ result.projectsWithMRs = <<2, 1>>

-----------------------------------------------------------------------------
(* getWeekNumber on its own: the argument is the one element of events *)

WeekYears == 2019..(2018 + MaxWeekYears)

WeekDates ==
    { [y |-> y, m |-> m, d |-> d, h |-> h] :
        y \in WeekYears, m \in 1..12, d \in 1..31, h \in {0, 23} }

InitWeek ==
    /\ \E date \in WeekDates :
          /\ date.d <= DaysInMonth(date.y, date.m)
          /\ events = <<date>>
    /\ called = "none"
    /\ result = 0
    /\ SummaryIdle

CallGetWeekNumber ==
    /\ called = "none"
    /\ called' = "getWeekNumber"
    /\ result' = getWeekNumber(events[1])
    /\ UNCHANGED <<events, summaryVars>>

NextWeek == CallGetWeekNumber

SpecWeek == InitWeek /\ [][NextWeek]_vars

-----------------------------------------------------------------------------
(* The ISO-8601 week of a calendar date *)

\* Monday = 1, ..., Sunday = 7; 1970-01-01 was a Thursday
IsoWeekday(y, m, d) == ((DateUTC(y, m, d) + 3) % 7) + 1

DayOfYear(y, m, d) == DateUTC(y, m, d) - DateUTC(y, 1, 1) + 1

\* a year has 53 weeks when it starts on a Thursday, or is a leap year and
\* starts on a Wednesday
IsoWeeksInYear(y) ==
    IF \/ IsoWeekday(y, 1, 1) = 4
       \/ (IsLeap(y) /\ IsoWeekday(y, 1, 1) = 3)
    THEN 53 ELSE 52

IsoWeek(y, m, d) ==
    LET w == (DayOfYear(y, m, d) - IsoWeekday(y, m, d) + 10) \div 7
    IN  IF w < 1 THEN IsoWeeksInYear(y - 1)
        ELSE IF w > IsoWeeksInYear(y) THEN 1
        ELSE w

\* a day of late December whose week has its Thursday in the next year
ThursdayInNextYear(y, m, d) == m = 12 /\ d + (4 - IsoWeekday(y, m, d)) > 31

\* C20: getWeekNumber(d) is the ISO-8601 week number of d, always within
\* 1..53, and 1 for the days of late December whose week has its Thursday
\* in the next year.
C20_IsoWeekNumber ==
    called = "getWeekNumber" =>
        LET date == events[1]
        IN  /\ result = IsoWeek(date.y, date.m, date.d)
            /\ result \in 1..53
            /\ ThursdayInNextYear(date.y, date.m, date.d) => result = 1

\* 2025-12-31, a Wednesday: week 1 of 2026
C20_Witness ==
    /\ called = "getWeekNumber"
    /\ events[1].y = 2025
    /\ events[1].m = 12
    /\ events[1].d = 31
    /\ ThursdayInNextYear(2025, 12, 31)
    /\ result = 1

-----------------------------------------------------------------------------
(* Unparseable timestamps in analyzeEvents *)

Unparseable(k) == events[k].created_at.kind # "iso"

WithAction(action) ==
    { k \in 1..Len(events) : events[k].action_name = action }

MonthBuckets == { metrics.monthlyActivity[n].key :
                    n \in 1..Len(metrics.monthlyActivity) }

\* C21: an event with a malformed timestamp does not abort analyzeEvents:
\* it is counted in totalEvents, in the counter of its kind and, when the
\* allow-list keeps it, in the counters of its project; its month goes to
\* one bucket of its own and to no month name.
C21_MalformedStillCounted ==
    JustAnalyzed =>
        /\ metrics.totalEvents = Len(events)
        /\ \A k \in 1..Len(events) :
              LET name == ResolvedName(events[k])
              IN  /\ ObjCount(metrics.eventTypeCounts, events[k].action_name)
                       = Cardinality(WithAction(events[k].action_name))
                  /\ Retained(name) =>
                        /\ ObjCount(metrics.projectActivity, name)
                             = Cardinality(RetainedEvents(name))
                        /\ ObjHas(metrics.projectContributions, name)
                        /\ ObjGet(metrics.projectContributions, name).total
                             = Cardinality(RetainedEvents(name))
        /\ \A month \in MonthNameSet :
              ObjCount(metrics.monthlyActivity, month)
                = Cardinality(RetainedInMonth(month))
        /\ Cardinality(MonthBuckets \ MonthNameSet) <= 1
        /\ SumOfValues(metrics.monthlyActivity)
             = Cardinality(AllRetainedEvents)

\* a malformed event between two events of January and February, all kept:
\* three events counted, one in each of three month buckets
C21_Witness ==
    /\ JustAnalyzed
    /\ Len(events) = 3
    /\ ~Unparseable(1) /\ Unparseable(2) /\ ~Unparseable(3)
    /\ AllRetainedEvents = {1, 2, 3}
    /\ metrics.totalEvents = 3
    /\ SumOfValues(metrics.projectActivity) = 3
    /\ Cardinality(MonthBuckets) = 3
    /\ Cardinality(MonthBuckets \ MonthNameSet) = 1

-----------------------------------------------------------------------------
(* Every analyzer on one input array                                        *)

MaxActivities == 2

\* an array element carrying the fields of a GitLab event, of a GitHub event
\* and of a merge request or issue; each analyzer reads the fields it knows
Activity(action, projectId, stamp, type, repo, state, mergedAt) ==
    [action_name |-> action, project_id |-> projectId, created_at |-> stamp,
     type |-> type, repo |-> repo, state |-> state, merged_at |-> mergedAt]

Activities ==
    { Activity(StrPushedTo, 1, Stamp(2025, 1, 15, 9),
               StrPushEvent, StrRepoA, "merged", Stamp(2025, 1, 16, 9)),
      Activity(StrOpened, 2, Stamp(2025, 2, 1, 9),
               StrIssuesEvent, StrRepoB, "closed", Missing),
      Activity(StrOpened, 1, Stamp(2025, 1, 16, 9),
               StrIssuesEvent, StrRepoA, "opened", Missing),
      Activity(StrPushedTo, 0, Malformed,
               StrPushEvent, EmptyStr, "merged", Malformed) }

InitAnalyzers ==
    /\ events \in SeqsUpTo(Activities, MaxActivities)
    /\ result = <<>>
    /\ \/ /\ called = "none"
          /\ SummaryIdle
       \/ /\ called = "getUserActivitySummary"
          /\ server \in Servers
          /\ allowedProjects \in AllowLists
          /\ pc = "analyzeEvents"
          /\ idx = 1
          /\ metrics = InitialMetrics(events)
          /\ projectNamesMap = <<>>
          /\ projectName = Null
          /\ nameCalls = <<>>
          /\ detailPos = 1
          /\ projectDetailsFromEvents = <<>>
          /\ RunIdle

NextAnalyzers ==
    \/ CallAnalyzeStreaks
    \/ CallAnalyzeGitHubStreaks
    \/ CallAnalyzeTimePatterns
    \/ CallAnalyzeGitHubTimePatterns
    \/ CallAnalyzeMergeRequests
    \/ CallAnalyzeIssues
    \/ CallAnalyzeGitHubEvents
    \/ AnalyzeEventsStep
    \/ AnalyzeEventsReturn

SpecAnalyzers == InitAnalyzers /\ [][NextAnalyzers]_vars

\* no streak: length 0, no active day, null start and end
ZeroStreak(r) ==
    /\ r.maxStreak = 0
    /\ r.totalActiveDays = 0
    /\ r.maxStreakStart = Null
    /\ r.maxStreakEnd = Null

NoKeys(obj) == DOMAIN obj = {}

ZeroTimePatterns(r) ==
    /\ NoKeys(r.hourlyActivity)
    /\ NoKeys(r.dailyActivity)
    /\ NoKeys(r.weeklyActivity)
    /\ NoKeys(r.monthlyActivity)

ZeroMergeRequests(r) ==
    /\ r.totalCreated = 0
    /\ r.mergedCount = 0
    /\ r.openedCount = 0
    /\ r.closedCount = 0
    /\ r.averageTimeToMerge = [num |-> 0, den |-> 1]
    /\ Len(r.projectsWithMRs) = 0

ZeroIssues(r) ==
    /\ r.totalCreated = 0
    /\ r.closedCount = 0
    /\ r.openedCount = 0
    /\ Len(r.projectsWithIssues) = 0

ZeroEvents(m) ==
    /\ m.totalEvents = 0
    /\ Len(m.eventTypeCounts) = 0
    /\ Len(m.projectActivity) = 0
    /\ Len(m.monthlyActivity) = 0
    /\ Len(m.projectContributions) = 0
    /\ Len(m.topProjects) = 0
    /\ m.mostActiveMonth = ""

ZeroGitHubEvents(m) ==
    /\ m.totalEvents = 0
    /\ Len(m.eventTypeCounts) = 0
    /\ Len(m.repoActivity) = 0
    /\ Len(m.monthlyActivity) = 0
    /\ Len(m.contributions) = 0
    /\ Len(m.topRepos) = 0
    /\ m.mostActiveMonth = ""

\* C22: handed an empty array, every analyzer returns its zero-valued
\* result: analyzeStreaks no streak, no active day and null start and end,
\* analyzeTimePatterns four empty mappings, analyzeMergeRequests and
\* analyzeIssues counts of 0 and no project, analyzeEvents and
\* analyzeGitHubEvents totalEvents 0, empty mappings, an empty top list and
\* the empty string as mostActiveMonth
C22_EmptyInput ==
    Len(events) = 0 =>
        /\ called \in {"analyzeStreaks", "analyzeGitHubStreaks"}
              => ZeroStreak(result)
        /\ called \in {"analyzeTimePatterns", "analyzeGitHubTimePatterns"}
              => ZeroTimePatterns(result)
        /\ called = "analyzeMergeRequests" => ZeroMergeRequests(result)
        /\ called = "analyzeIssues" => ZeroIssues(result)
        /\ called = "analyzeGitHubEvents" => ZeroGitHubEvents(result)
        /\ pc = "analyzed" => ZeroEvents(metrics)

C22_Witness ==
    /\ Len(events) = 0
    /\ called = "analyzeTimePatterns"
    /\ ZeroTimePatterns(result)
-----------------------------------------------------------------------------
(* getOutputFilename                                                        *)
(* summary.gitlab and summary.github are null (kind "null"), an object      *)
(* without events (kind "noEvents") or an object whose events.totalEvents   *)
(* is a number (kind "events"); an environment variable that is not set is  *)
(* the empty string, which is as falsy as undefined                         *)

MaxTotalEvents == 2

MaxYears == 2

StrGitlab == <<103, 105, 116, 108, 97, 98>>

StrGithub == <<103, 105, 116, 104, 117, 98>>

StrAllPlatforms ==
    <<97, 108, 108, 45, 112, 108, 97, 116, 102, 111, 114, 109, 115>>

StrYearInReview ==
    <<45, 121, 101, 97, 114, 45, 105, 110, 45, 114, 101, 118, 105, 101, 119,
      45>>

StrDotMd == <<46, 109, 100>>

StrReportMd == <<114, 101, 112, 111, 114, 116, 46, 109, 100>>

NoData == [kind |-> "null", totalEvents |-> 0]

NoEvents == [kind |-> "noEvents", totalEvents |-> 0]

EventsData(totalEvents) == [kind |-> "events", totalEvents |-> totalEvents]

\* summary.x && summary.x.events && summary.x.events.totalEvents > 0
HasEvents(data) == data.kind = "events" /\ data.totalEvents > 0

\* the else-if chain with the GitLab test first
Platform_GitLabFirst(hasGitLab, hasGitHub) ==
    IF hasGitLab THEN StrGitlab
    ELSE IF hasGitHub THEN StrGithub
    ELSE StrGitlab

Platform(hasGitLab, hasGitHub) ==
    IF hasGitLab /\ hasGitHub THEN StrAllPlatforms
    ELSE IF hasGitHub THEN StrGithub
    ELSE IF hasGitLab THEN StrGitlab
    ELSE StrGitlab

getOutputFilename(summary, environment) ==
    LET platform == Platform(HasEvents(summary.gitlab),
                             HasEvents(summary.github))
        customFilename == environment.OUTPUT_FILENAME
    IN  IF customFilename # EmptyStr THEN customFilename
        ELSE platform \o StrYearInReview \o NumberToString(environment.year)
                      \o StrDotMd

PlatformData ==
    {NoData, NoEvents} \cup { EventsData(n) : n \in 0..MaxTotalEvents }

Summaries == [gitlab : PlatformData, github : PlatformData]

\* config.validate() admits the years from 2000 on
Years == 2000..(1999 + MaxYears) \cup {2025}

Environments ==
    [OUTPUT_FILENAME : {EmptyStr, StrReportMd}, year : Years]

InitFilename ==
    /\ events \in { <<summary>> : summary \in Summaries }
    /\ env \in Environments
    /\ called = "none"
    /\ result = EmptyStr
    /\ requests = <<>>
    /\ files = <<>>
    /\ frame = <<>>
    /\ AnalysisIdle

CallGetOutputFilename ==
    /\ called = "none"
    /\ called' = "getOutputFilename"
    /\ result' = getOutputFilename(events[1], env)
    /\ UNCHANGED <<events, summaryVars>>

NextFilename == CallGetOutputFilename

SpecFilename == InitFilename /\ [][NextFilename]_vars

\* the part of a summary counts events
Counted(data) == data.kind = "events" /\ data.totalEvents >= 1

\* the four decimal digits of a year
YearDigits(year) ==
    [n \in 1..4 |-> 48 + ((year \div (10 ^ (4 - n))) % 10)]

GeneratedName(label, year) ==
    label \o StrYearInReview \o YearDigits(year) \o StrDotMd

\* C23: getOutputFilename returns OUTPUT_FILENAME as it is when it is set,
\* and otherwise {platform}-year-in-review-{year}.md, where platform is
\* all-platforms exactly when both parts count events, github exactly when
\* only the GitHub part does, and gitlab in every other case
C23_OutputFilename ==
    called = "getOutputFilename" =>
        LET summary == events[1]
            both == Counted(summary.gitlab) /\ Counted(summary.github)
            onlyGitHub == ~Counted(summary.gitlab) /\ Counted(summary.github)
        IN  IF env.OUTPUT_FILENAME # EmptyStr
            THEN result = env.OUTPUT_FILENAME
            ELSE /\ both <=> result = GeneratedName(StrAllPlatforms, env.year)
                 /\ onlyGitHub <=> result = GeneratedName(StrGithub, env.year)
                 /\ ~both /\ ~onlyGitHub
                      <=> result = GeneratedName(StrGitlab, env.year)

C23_Witness ==
    /\ called = "getOutputFilename"
    /\ env.OUTPUT_FILENAME = EmptyStr
    /\ events[1].gitlab.kind = "events"
    /\ events[1].gitlab.totalEvents > 0
    /\ events[1].github.kind = "events"
    /\ events[1].github.totalEvents > 0
    /\ result = GeneratedName(StrAllPlatforms, env.year)
-----------------------------------------------------------------------------
(* runYearInReview: a single-user run, a team run, and                      *)
(* getUserActivitySummary called on its own                                 *)
(* A token or a user name of the configuration is TRUE when it is a         *)
(* non-empty string. A summary keeps what the run reads of it: the events   *)
(* totals of its two parts, overall.totalActivities and the username. A     *)
(* report is the list of the sections it prints, one per summary. fs writes *)
(* succeed.                                                                 *)

MaxTeam == 2

MaxRunEvents == 1

StrTeam == <<116, 101, 97, 109>>

isGitLabConfigured(config) ==
    /\ config.GITLAB_TOKEN
    /\ config.GITLAB_USER_ID \/ Len(config.GITLAB_TEAM_USERS) > 0

isGitHubConfigured(config) == config.GITHUB_TOKEN /\ config.GITHUB_USERNAME

\* config.validate(): at least one platform is configured
Validate(config) == isGitLabConfigured(config) \/ isGitHubConfigured(config)

\* gitlabClient is created only if GitLab is configured, and is null if not
HasGitLabClient(config) == isGitLabConfigured(config)

NoSummary ==
    [gitlab |-> NoData, github |-> NoData, totalActivities |-> 0,
     username |-> EmptyStr]

\* gitlabData?.overall?.totalActivities || 0, githubData?.events?.totalEvents || 0
TotalOr0(data) == IF data.kind = "events" THEN data.totalEvents ELSE 0

\* the summary object of lines 681-689
Summary(gitlabData, githubData) ==
    [gitlab |-> gitlabData, github |-> githubData,
     totalActivities |-> TotalOr0(gitlabData) + TotalOr0(githubData),
     username |-> EmptyStr]

\* one section of a report: whose it is and the activities it prints
Section(summary) ==
    [username |-> summary.username,
     totalActivities |-> summary.totalActivities]

\* generateYearInReviewReport(summary) + generateActivityVisualization
generateYearInReviewReport(summary) == <<Section(summary)>>

\* generateTeamYearInReviewReport: one section per summary, in the order of
\* teamSummaries
generateTeamYearInReviewReport(teamSummaries) ==
    [n \in 1..Len(teamSummaries) |-> Section(teamSummaries[n])]

\* `team-year-in-review-${config.year}.md`
TeamFilename(config) ==
    StrTeam \o StrYearInReview \o NumberToString(config.year) \o StrDotMd

\* a request of the log
Request(platform, entity) == [platform |-> platform, entity |-> entity]

\* the eight fetchers of the GitLab part, started together by Promise.all
GitLabFetches ==
    << Request("gitlab", "getUserDetails"),
       Request("gitlab", "getEvents"),
       Request("gitlab", "getUserProjects"),
       Request("gitlab", "getUserMergeRequests"),
       Request("gitlab", "getUserAssignedMergeRequests"),
       Request("gitlab", "getUserIssues"),
       Request("gitlab", "getUserAssignedIssues"),
       Request("gitlab", "getUserCodeReviews") >>

\* the four fetchers of the GitHub part, started together by Promise.all
GitHubFetches ==
    << Request("github", "getGitHubUserActivity"),
       Request("github", "getGitHubUserCommits"),
       Request("github", "getGitHubUserDetails"),
       Request("github", "getGitHubContributions") >>

\* the locals of getUserActivitySummary and analyzeEvents
analysisLocals == <<idx, metrics, projectNamesMap, projectName, nameCalls,
                    detailPos, projectDetailsFromEvents>>

\* getUserActivitySummary is left: its locals are gone
LeaveSummary ==
    /\ events' = <<>>
    /\ idx' = 0
    /\ metrics' = <<>>
    /\ projectNamesMap' = <<>>
    /\ projectName' = Null
    /\ nameCalls' = <<>>
    /\ detailPos' = 0
    /\ projectDetailsFromEvents' = <<>>

\* getUserActivitySummary throws and no caller catches
SummaryThrows_Uncaught ==
    /\ pc' = "thrown"
    /\ frame' = frame
    /\ result' = result
    /\ LeaveSummary

\* getUserActivitySummary throws: runYearInReview rethrows, the loop of
\* runTeamYearInReview catches and goes on with the next member
SummaryThrows ==
    /\ IF frame.mode = "team"
       THEN /\ pc' = "teamLoop"
            /\ frame' = [frame EXCEPT !.i = @ + 1]
       ELSE /\ pc' = "thrown"
            /\ frame' = frame
    /\ result' = result
    /\ LeaveSummary

\* getUserActivitySummary returns summary to its caller
SummaryReturns(summary) ==
    /\ CASE frame.mode = "team" ->
              /\ pc' = "teamLoop"
              /\ frame' = [frame EXCEPT
                    !.teamSummaries =
                        Append(@, [summary EXCEPT
                                      !.username = frame.username]),
                    !.i = @ + 1]
              /\ result' = result
         [] frame.mode = "single" ->
              /\ pc' = "save"
              /\ frame' = [frame EXCEPT !.summary = summary]
              /\ result' = result
         [] OTHER ->
              /\ pc' = "done"
              /\ frame' = frame
              /\ result' = summary
    /\ LeaveSummary

\* the events a platform may hold of a user
RunGitLabEvents == { GitLabEvent(StrPushedTo, 1, Stamp(2025, 1, 15, 9)) }

RunGitHubEvents ==
    { GitHubEvent(StrPushEvent, StrRepoA, Stamp(2025, 1, 15, 9)) }

\* the answers of the users endpoint: a failed request, an empty list, and
\* a list that holds the user
UserLookups == {"failed", "none", "found"}

\* runYearInReview, lines 1576-1590: a team run if team users are
\* configured, a single-user run if not
RunYearInReview ==
    /\ pc = "start"
    /\ IF Len(env.GITLAB_TEAM_USERS) > 0
       THEN /\ pc' = "teamLoop"
            /\ frame' = [frame EXCEPT !.mode = "team", !.i = 1]
       ELSE /\ pc' = "userDetails"
            /\ frame' = [frame EXCEPT !.mode = "single"]
    /\ UNCHANGED <<events, called, result, server, allowedProjects,
                   analysisLocals, env, requests, files>>

\* runSingleUserYearInReview up to its call of getUserActivitySummary:
\* getUserDetails() throws on a null gitlabClient and on a failed request,
\* and a user that is not found is an error
GetUserDetails ==
    /\ pc = "userDetails"
    /\ IF ~HasGitLabClient(env)
       THEN /\ pc' = "thrown"
            /\ requests' = requests
       ELSE /\ requests' = Append(requests, Request("gitlab", "getUserDetails"))
            /\ \E answer \in UserLookups :
                  pc' = IF answer = "found" THEN "summary" ELSE "thrown"
    /\ UNCHANGED <<events, called, result, server, allowedProjects,
                   analysisLocals, env, files, frame>>

\* one iteration of the loop of runTeamYearInReview up to its call of
\* getUserActivitySummary: getUserDetailsByUsername returns null on a null
\* gitlabClient, on a failed request and on an empty list, and the member
\* is skipped
TeamMember ==
    /\ pc = "teamLoop"
    /\ frame.i <= Len(env.GITLAB_TEAM_USERS)
    /\ LET username == env.GITLAB_TEAM_USERS[frame.i]
       IN  IF ~HasGitLabClient(env)
           THEN /\ requests' = requests
                /\ pc' = pc
                /\ frame' = [frame EXCEPT !.i = @ + 1]
           ELSE /\ requests' =
                      Append(requests,
                             Request("gitlab", "getUserDetailsByUsername"))
                /\ \E answer \in UserLookups :
                      IF answer = "found"
                      THEN /\ pc' = "summary"
                           /\ frame' = [frame EXCEPT !.username = username]
                      ELSE /\ pc' = pc
                           /\ frame' = [frame EXCEPT !.i = @ + 1]
    /\ UNCHANGED <<events, called, result, server, allowedProjects,
                   analysisLocals, env, files>>

\* runTeamYearInReview after its loop: the team report is generated and
\* written
TeamReport ==
    /\ pc = "teamLoop"
    /\ frame.i > Len(env.GITLAB_TEAM_USERS)
    /\ LET teamReport == generateTeamYearInReviewReport(frame.teamSummaries)
       IN  /\ files' = Append(files, [filename |-> TeamFilename(env),
                                      content |-> teamReport])
           /\ result' = teamReport
    /\ pc' = "done"
    /\ UNCHANGED <<events, called, server, allowedProjects, analysisLocals,
                   env, requests, frame>>

\* getUserActivitySummary up to analyzeEvents, lines 552-581: the GitLab
\* part is skipped if GitLab is not configured; if it is, Promise.all starts
\* the eight fetchers; getUserDetails rejects when its request fails, the
\* seven others return what they fetched
FetchGitLab ==
    /\ pc = "summary"
    /\ IF ~isGitLabConfigured(env)
       THEN /\ pc' = "gitlabDone"
            /\ UNCHANGED <<events, result, analysisLocals, requests, frame>>
       ELSE /\ requests' = requests \o GitLabFetches
            /\ \/ SummaryThrows
               \/ /\ events' \in SeqsUpTo(RunGitLabEvents, MaxRunEvents)
                  /\ pc' = "analyzeEvents"
                  /\ idx' = 1
                  /\ metrics' = InitialMetrics(events')
                  /\ projectNamesMap' = <<>>
                  /\ projectName' = Null
                  /\ nameCalls' = <<>>
                  /\ detailPos' = 1
                  /\ projectDetailsFromEvents' = <<>>
                  /\ UNCHANGED <<result, frame>>
    /\ UNCHANGED <<called, server, allowedProjects, env, files>>

\* the GitHub fetchers started as soon as analyzeEvents has returned, with
\* the project details of the GitLab part still to fetch
FetchGitHub_Early ==
    /\ pc \in {"analyzed", "gitlabDone"}
    /\ isGitHubConfigured(env)
    /\ requests' = requests \o GitHubFetches
    /\ \E githubEvents \in SeqsUpTo(RunGitHubEvents, MaxRunEvents) :
          frame' = [frame EXCEPT !.githubEvents = githubEvents]
    /\ pc' = "githubFetched"
    /\ UNCHANGED <<events, called, result, server, allowedProjects,
                   analysisLocals, env, files>>

\* lines 644-655: the GitHub part starts its four fetchers, which return
\* what they fetched and an empty list or null when a request fails
FetchGitHub ==
    /\ pc = "gitlabDone"
    /\ isGitHubConfigured(env)
    /\ requests' = requests \o GitHubFetches
    /\ \E githubEvents \in SeqsUpTo(RunGitHubEvents, MaxRunEvents) :
          frame' = [frame EXCEPT !.githubEvents = githubEvents]
    /\ pc' = "githubFetched"
    /\ UNCHANGED <<events, called, result, server, allowedProjects,
                   analysisLocals, env, files>>

\* gitlabData of lines 617-641, as far as the summary keeps it
GitLabData ==
    IF isGitLabConfigured(env) THEN EventsData(metrics.totalEvents)
    ELSE NoData

\* githubData of lines 657-668, as far as the summary keeps it
GitHubData(githubEvents) ==
    IF isGitHubConfigured(env)
    THEN EventsData(analyzeGitHubEvents(githubEvents, <<>>).totalEvents)
    ELSE NoData

\* lines 657-693: the GitHub analysis if GitHub is configured, then the
\* summary, or the error thrown if neither part has data
ReturnSummary ==
    /\ \/ pc = "githubFetched"
       \/ pc = "gitlabDone" /\ ~isGitHubConfigured(env)
    /\ LET gitlabData == GitLabData
           githubData == GitHubData(frame.githubEvents)
       IN  IF gitlabData.kind = "null" /\ githubData.kind = "null"
           THEN SummaryThrows
           ELSE SummaryReturns(Summary(gitlabData, githubData))
    /\ UNCHANGED <<called, server, allowedProjects, env, requests, files>>

\* runSingleUserYearInReview after getUserActivitySummary: the report is
\* generated and saved under the name getOutputFilename gives
SaveReport ==
    /\ pc = "save"
    /\ LET report == generateYearInReviewReport(frame.summary)
       IN  /\ files' =
                 Append(files,
                        [filename |-> getOutputFilename(frame.summary, env),
                         content |-> report])
           /\ result' = report
    /\ pc' = "done"
    /\ UNCHANGED <<events, called, server, allowedProjects, analysisLocals,
                   env, requests, frame>>

\* "user1", "user2", ...
UserName(k) == <<117, 115, 101, 114>> \o NumberToString(k)

\* GITLAB_TEAM_USERS: no team, or a team of up to MaxTeam users
Teams == { [k \in 1..n |-> UserName(k)] : n \in 0..MaxTeam }

\* the configurations config.validate() accepts
RunEnvironments ==
    { config \in [GITLAB_TOKEN : BOOLEAN, GITLAB_USER_ID : BOOLEAN,
                  GITLAB_TEAM_USERS : Teams,
                  GITHUB_TOKEN : BOOLEAN, GITHUB_USERNAME : BOOLEAN,
                  OUTPUT_FILENAME : {EmptyStr}, year : {2025}] :
        /\ Validate(config)
        /\ config.GITHUB_TOKEN = config.GITHUB_USERNAME
        /\ Len(config.GITLAB_TEAM_USERS) > 0 => ~config.GITLAB_USER_ID }

RunServer == (1 :> Named(StrAlpha)) @@ (2 :> Rejected)

\* runYearInReview is called, or getUserActivitySummary is
InitRun ==
    /\ env \in RunEnvironments
    /\ \/ called = "runYearInReview" /\ pc = "start"
       \/ called = "getUserActivitySummary" /\ pc = "summary"
    /\ frame = [mode |-> "direct", i |-> 0, username |-> EmptyStr,
                teamSummaries |-> <<>>, summary |-> NoSummary,
                githubEvents |-> <<>>]
    /\ events = <<>>
    /\ result = <<>>
    /\ server = RunServer
    /\ allowedProjects = <<>>
    /\ idx = 0
    /\ metrics = <<>>
    /\ projectNamesMap = <<>>
    /\ projectName = Null
    /\ nameCalls = <<>>
    /\ detailPos = 0
    /\ projectDetailsFromEvents = <<>>
    /\ requests = <<>>
    /\ files = <<>>

NextRun ==
    \/ RunYearInReview
    \/ GetUserDetails
    \/ TeamMember
    \/ TeamReport
    \/ FetchGitLab
    \/ AnalyzeEventsStep
    \/ AnalyzeEventsReturn
    \/ FetchProjectDetails
    \/ BuildGitLabData
    \/ FetchGitHub
    \/ ReturnSummary
    \/ SaveReport

SpecRun == InitRun /\ [][NextRun]_vars

\* only GitHub is configured: a GitHub token and user name, and no GitLab
\* token or no GitLab user
OnlyGitHub ==
    /\ isGitHubConfigured(env)
    /\ ~env.GITLAB_TOKEN \/ ~env.GITLAB_USER_ID
    /\ Len(env.GITLAB_TEAM_USERS) = 0

RunOver == called = "runYearInReview" /\ pc \in {"done", "thrown"}

\* C24: with only GitHub configured, a run of runYearInReview ends without
\* an error, its report holds the GitHub activity, and the one file written
\* is github-year-in-review-{YEAR}.md
C24_GitHubOnlyRun ==
    OnlyGitHub /\ RunOver =>
        /\ pc = "done"
        /\ Len(files) = 1
        /\ files[1].content = result
        /\ files[1].filename = GeneratedName(StrGithub, env.year)
-----------------------------------------------------------------------------
(* fetchAllPages and getEvents                                              *)
(* An item of a page is the number it has in the whole listing. A response  *)
(* whose data is absent is handled as an empty page is. The server honours  *)
(* per_page: a page holds at most perPage items.                            *)

MaxPerPage == 2

MaxPages == 3

\* maxPages = 100, the default of the parameter
DefaultMaxPages == 100

\* the items a server sends as the page of this number
PageData(page, perPage, length) ==
    [k \in 1..length |-> (page - 1) * perPage + k]

\* the while condition with one page more
LoopContinues_OneMore(hasMore, page, maxPages) ==
    hasMore /\ page <= maxPages + 1

\* while (hasMore && page <= maxPages)
LoopContinues(hasMore, page, maxPages) == hasMore /\ page <= maxPages

\* the body of the loop on a response with data
OnResponse(locals, data, perPage) ==
    IF Len(data) > 0
    THEN IF Len(data) < perPage
         THEN [locals EXCEPT !.allResults = @ \o data, !.hasMore = FALSE]
         ELSE [locals EXCEPT !.allResults = @ \o data, !.page = @ + 1]
    ELSE [locals EXCEPT !.hasMore = FALSE]

\* fetchAllPages is entered: its locals are set and the while condition is
\* evaluated for the first time
EnterFetchAllPages ==
    /\ pc = "start"
    /\ LET maxPages == IF called = "getEvents" THEN DefaultMaxPages
                       ELSE frame.maxPages
           locals == [frame EXCEPT !.allResults = <<>>, !.page = 1,
                                   !.hasMore = TRUE, !.maxPages = maxPages]
       IN  /\ frame' = locals
           /\ IF LoopContinues(locals.hasMore, locals.page, locals.maxPages)
              THEN pc' = "loop" /\ result' = result
              ELSE pc' = "returned" /\ result' = locals.allResults
    /\ UNCHANGED <<events, called, server, allowedProjects, analysisLocals,
                   env, requests, files>>

\* one iteration of the loop: the request of the page, its answer, and the
\* while condition after it; a request that fails, and a null client, end
\* the loop by break; after the loop allResults is returned, by getEvents
\* as well
FetchPage ==
    /\ pc = "loop"
    /\ \E answer \in {"failed", "data"} :
       \E length \in 0..env.PER_PAGE :
          LET failed == ~frame.hasClient \/ answer = "failed"
              locals == IF failed THEN frame
                        ELSE OnResponse(frame,
                                 PageData(frame.page, env.PER_PAGE, length),
                                 env.PER_PAGE)
              goesOn == /\ ~failed
                        /\ LoopContinues(locals.hasMore, locals.page,
                                         locals.maxPages)
          IN  /\ failed => length = 0
              /\ requests' =
                    IF frame.hasClient
                    THEN Append(requests,
                                [page |-> frame.page, failed |-> failed,
                                 length |-> length])
                    ELSE requests
              /\ frame' = locals
              /\ IF goesOn
                 THEN pc' = "loop" /\ result' = result
                 ELSE pc' = "returned" /\ result' = locals.allResults
    /\ UNCHANGED <<events, called, server, allowedProjects, analysisLocals,
                   env, files>>

InitPages ==
    /\ called \in {"fetchAllPages", "getEvents"}
    /\ pc = "start"
    /\ env \in [PER_PAGE : 1..MaxPerPage]
    /\ frame \in [allResults : {<<>>}, page : {0}, hasMore : {FALSE},
                  maxPages : 0..MaxPages, hasClient : BOOLEAN]
    /\ called = "getEvents" => frame.maxPages = 0
    /\ events = <<>>
    /\ result = <<>>
    /\ requests = <<>>
    /\ files = <<>>
    /\ server = <<>>
    /\ allowedProjects = <<>>
    /\ idx = 0
    /\ metrics = <<>>
    /\ projectNamesMap = <<>>
    /\ projectName = Null
    /\ nameCalls = <<>>
    /\ detailPos = 0
    /\ projectDetailsFromEvents = <<>>

NextPages == EnterFetchAllPages \/ FetchPage

SpecPages == InitPages /\ [][NextPages]_vars

\* every iteration ends with the answer of its request
SpecPagesFair == SpecPages /\ WF_vars(NextPages)

FailedRequests == { n \in 1..Len(requests) : requests[n].failed }

\* C25: getEvents throws when a page request of its fetch fails; it does
\* not return a list as if the fetch had succeeded
C25_FailedPageThrows ==
    called = "getEvents" /\ FailedRequests # {} => pc # "returned"

\* the page limit of the call: the argument, or the default of 100 pages
\* when getEvents calls
PageLimit == IF called = "getEvents" THEN 100 ELSE frame.maxPages

\* the answer of the n-th request is a full page
FullPage(n) == ~requests[n].failed /\ requests[n].length = env.PER_PAGE

\* the answer of the n-th request ends the listing
LastPage(n) == requests[n].failed \/ requests[n].length < env.PER_PAGE

PagesReturned == pc = "returned"

PaginationInOrder ==
    /\ Len(requests) <= PageLimit
    /\ \A n \in 1..Len(requests) : requests[n].page = n
    /\ \A n \in 1..(Len(requests) - 1) : FullPage(n)
    /\ pc = "loop" =>
          /\ Len(requests) < PageLimit
          /\ \A n \in 1..Len(requests) : FullPage(n)
    /\ PagesReturned /\ frame.hasClient =>
          \/ Len(requests) = PageLimit
          \/ Len(requests) > 0 /\ LastPage(Len(requests))

\* C26: fetchAllPages ends, and issues at most maxPages requests: the pages
\* are requested one at a time in the order 1, 2, 3, ..., a page only after
\* the page before it came back with exactly perPage items, and the loop
\* stops at the first answer that is empty or shorter than perPage, at the
\* first request that fails, or when maxPages pages were fetched
C26_Pagination == []PaginationInOrder /\ <>PagesReturned

C26_Witness ==
    /\ called = "fetchAllPages"
    /\ PagesReturned
    /\ Len(requests) = 3
    /\ FullPage(1)
    /\ FullPage(2)
    /\ ~requests[3].failed
    /\ requests[3].length < env.PER_PAGE
    /\ Len(result) = 2 * env.PER_PAGE + requests[3].length
-----------------------------------------------------------------------------
(* The two buckets of analyzeIssues *)

IssuesReturned == called = "analyzeIssues"

NotInState(state) == { n \in 1..Len(events) : events[n].state # state }

\* C27: analyzeIssues puts every issue into exactly one of two buckets:
\* closedCount counts the issues whose state is 'closed', openedCount all
\* the others, so that closedCount + openedCount = totalCreated
C27_IssuePartition ==
    IssuesReturned =>
        /\ result.closedCount = Cardinality(InState("closed"))
        /\ result.openedCount = Cardinality(NotInState("closed"))
        /\ result.closedCount + result.openedCount = result.totalCreated
        /\ result.totalCreated = Len(events)

\* a closed issue, an opened one and one in another state
C27_Witness ==
    /\ IssuesReturned
    /\ Len(events) = 3
    /\ events[1].state = "closed"
    /\ events[2].state = "locked"
    /\ events[3].state = "opened"
    /\ result.closedCount = 1
    /\ result.openedCount = 2
-----------------------------------------------------------------------------
(* Raw totals and filtered totals of analyzeEvents *)

DroppedEvents == (1..Len(events)) \ AllRetainedEvents

RECURSIVE SumOfTotals(_)
SumOfTotals(contributions) ==
    IF contributions = <<>> THEN 0
    ELSE Head(contributions).value.total + SumOfTotals(Tail(contributions))

\* C28: the allow-list does not touch the raw totals of analyzeEvents:
\* totalEvents is the length of the input and the values of eventTypeCounts
\* sum to it, dropped events included, while the values of projectActivity,
\* the totals of projectContributions and the values of monthlyActivity sum
\* to the number of retained events
C28_RawAndFilteredTotals ==
    JustAnalyzed =>
        /\ metrics.totalEvents = Len(events)
        /\ SumOfValues(metrics.eventTypeCounts) = Len(events)
        /\ SumOfValues(metrics.projectActivity)
             = Len(events) - Cardinality(DroppedEvents)
        /\ SumOfTotals(metrics.projectContributions)
             = Len(events) - Cardinality(DroppedEvents)
        /\ SumOfValues(metrics.monthlyActivity)
             = Len(events) - Cardinality(DroppedEvents)

\* three events of which the allow-list drops two
C28_Witness ==
    /\ JustAnalyzed
    /\ Len(events) = 3
    /\ Cardinality(DroppedEvents) = 2
    /\ metrics.totalEvents = 3
    /\ SumOfValues(metrics.eventTypeCounts) = 3
    /\ SumOfValues(metrics.projectActivity) = 1
-----------------------------------------------------------------------------
(* The order of the two platforms in getUserActivitySummary *)

BothConfigured ==
    /\ env.GITLAB_TOKEN
    /\ env.GITLAB_USER_ID \/ env.GITLAB_TEAM_USERS # <<>>
    /\ env.GITHUB_TOKEN
    /\ env.GITHUB_USERNAME

GitHubRequests(log) == { n \in 1..Len(log) : log[n].platform = "github" }

GitLabRequests(log) == { n \in 1..Len(log) : log[n].platform = "gitlab" }

\* the project ids of the events, each once
EventProjects == { events[n].project_id : n \in 1..Len(events) } \ {0}

\* the GitLab part is through: its fetchers were started, every event is
\* analyzed and every project of the events was looked up
GitLabPartOver ==
    /\ pc = "gitlabDone"
    /\ GitLabRequests(requests) # {}
    /\ idx = Len(events) + 1
    /\ metrics.totalEvents = Len(events)
    /\ detailPos = Cardinality(EventProjects) + 1

\* the summary handed to the caller by this step
ReturnedSummary ==
    IF pc' = "done" THEN result'
    ELSE IF pc' = "save" THEN frame'.summary
    ELSE frame'.teamSummaries[Len(frame'.teamSummaries)]

\* this step returns a summary from getUserActivitySummary
SummaryReturned ==
    /\ pc \in {"gitlabDone", "githubFetched"}
    /\ \/ pc' = "done"
       \/ pc' = "save"
       \/ pc' = "teamLoop" /\ Len(frame'.teamSummaries) > Len(frame.teamSummaries)

\* this step throws out of getUserActivitySummary
SummaryThrown ==
    /\ pc \in {"summary", "gitlabDone", "githubFetched"}
    /\ \/ pc' = "thrown"
       \/ /\ pc' = "teamLoop"
          /\ Len(frame'.teamSummaries) = Len(frame.teamSummaries)

PlatformOrder ==
    BothConfigured =>
        /\ GitHubRequests(requests') # GitHubRequests(requests)
              => GitLabPartOver
        /\ SummaryThrown =>
              /\ pc = "summary"
              /\ GitHubRequests(requests') = GitHubRequests(requests)
        /\ SummaryReturned =>
              /\ pc = "githubFetched"
              /\ ReturnedSummary.gitlab = [kind |-> "events",
                                           totalEvents |-> Len(events)]
              /\ ReturnedSummary.github
                   = [kind |-> "events",
                      totalEvents |-> Len(frame.githubEvents)]
              /\ ReturnedSummary.totalActivities
                   = Len(events) + Len(frame.githubEvents)

-----------------------------------------------------------------------------
(* A team run *)

\* every step of a run takes its time and ends
SpecRunFair == SpecRun /\ WF_vars(NextRun)

Team == env.GITLAB_TEAM_USERS

IsTeamRun == called = "runYearInReview" /\ Team # <<>>

Usernames(sections) == [n \in 1..Len(sections) |-> sections[n].username]

\* one member at a time, in the order of the configuration: a member that
\* is not found, and one whose summary throws, is passed over, one whose
\* summary is returned is added to the summaries, and the report is written
\* after the last member
TeamStep ==
    IsTeamRun =>
        /\ frame'.i \in {frame.i, frame.i + 1}
        /\ pc = "teamLoop" /\ pc' = "summary" =>
              /\ frame'.username = Team[frame.i]
              /\ frame'.i = frame.i
              /\ frame'.teamSummaries = frame.teamSummaries
        /\ pc = "teamLoop" /\ pc' = "teamLoop" =>
              /\ frame'.i = frame.i + 1
              /\ frame'.teamSummaries = frame.teamSummaries
        /\ pc \notin {"start", "teamLoop"} /\ pc' # "teamLoop" =>
              /\ frame'.i = frame.i
              /\ frame'.teamSummaries = frame.teamSummaries
        /\ SummaryThrown =>
              /\ pc' = "teamLoop"
              /\ frame'.i = frame.i + 1
              /\ frame'.teamSummaries = frame.teamSummaries
        /\ SummaryReturned =>
              /\ pc' = "teamLoop"
              /\ frame'.i = frame.i + 1
              /\ Usernames(frame'.teamSummaries)
                   = Append(Usernames(frame.teamSummaries), Team[frame.i])
        /\ files' # files =>
              /\ files = <<>>
              /\ Len(files') = 1
              /\ frame.i = Len(Team) + 1
              /\ pc' = "done"
              /\ Usernames(files'[1].content)
                   = Usernames(frame.teamSummaries)

TeamInvariant ==
    IsTeamRun =>
        /\ pc # "thrown"
        /\ Len(files) <= 1
        /\ pc = "done" <=> Len(files) = 1
        /\ Len(frame.teamSummaries) < frame.i \/ pc = "start"

TeamRunEnds == IsTeamRun => pc = "done"

\* C30: a team run processes the members one after another in the order of
\* the configuration; a member that is not found or whose summary throws is
\* skipped and the members after it are still processed; the team report is
\* written exactly once, after all members, and holds the members whose
\* summary succeeded, in the order of the configuration
C30_TeamRun == []TeamInvariant /\ [][TeamStep]_vars /\ <>TeamRunEnds

\* of a team of two the report holds the second member alone
C30_Witness ==
    /\ IsTeamRun
    /\ Len(Team) = 2
    /\ pc = "done"
    /\ Len(files) = 1
    /\ Usernames(files[1].content) = <<Team[2]>>
    /\ result = files[1].content
=============================================================================
